---- MODULE Spec2Model ----
(***************************************************************************)
(* Order lifecycle of the order-management backend.                        *)
(*                                                                         *)
(* Two server variants exist: the relational one (server-db.js, the Order  *)
(* model and the controllers, all working on the MySQL table `orders`)     *)
(* and the in-memory one (the array `orders` of the simple server).  A run *)
(* of the model is a run of one of them; `variant` says which.             *)
(*                                                                         *)
(* JavaScript values are modelled as follows.                              *)
(*   - a status is a string; "undefined" and "null" stand for the JS       *)
(*     values undefined and null, "" is the empty string (also MySQL's     *)
(*     ENUM error value);                                                  *)
(*   - a number that may be absent is a pair <<kind, n>> with kind         *)
(*     "undef" | "num";                                                    *)
(*   - a text is a sequence of one-character strings.                      *)
(***************************************************************************)
EXTENDS Integers, Sequences, FiniteSets, TLC

VARIABLES
    variant,     \* "db": relational server and controllers; "mem": in-memory server
    sqlStrict,   \* MySQL sql_mode of the deployment: strict or not
    orders,      \* table `orders`: id -> row (relational variant)
    nextId,      \* AUTO_INCREMENT counter of table `orders`
    memOrders,   \* array `orders` of the in-memory server
    today,       \* current calendar day (days since BaseDate)
    last,        \* the last request handled and its response
    requestCounts, \* Map requestCounts of the rate limiter: ip -> record
    now,         \* Date.now(): milliseconds since the server started
    passed,      \* per ip, the requests of the last minute handed to next():
                 \* time -> number
    inFlight     \* courier requests being served at the same time: where each
                 \* one stands between its awaits

vars ==
    <<variant, sqlStrict, orders, nextId, memOrders, today, last,
      requestCounts, now, passed, inFlight>>

\* state of the rate limiter, which no request handler touches
limiter == <<requestCounts, now, passed>>

\* what a request served alone leaves as it is: the rate limiter and the
\* requests in flight
aside == <<limiter, inFlight>>

(***************************************************************************)
(* Bounds of the model.                                                    *)
(***************************************************************************)
\* rows ever inserted in table `orders` in one run of the lifecycle
MaxOrders == 1
\* seed rows in table `orders` when the relational server starts on a seeded
\* database
NumSeeds == 1
\* orders the in-memory server may add to its seed array
MaxMemNew == 1
\* rows of table `orders` a courier request is applied to
NumRows == 2
\* longest orderIds array of a bulk request
MaxBulk == 2
\* rows ever inserted into the table in one run of the order-code specification
MaxCreations == 2
\* the random suffix of an order code is drawn from 0 .. MaxRandom
MaxRandom == 1
\* days the clock may advance
MaxDay == 1
\* days the clock may advance in one run of the daily-series specification
MaxClock == 8
\* instants per rate-limit window at which the millisecond clock is observed
TicksPerWindow == 2
\* instants the millisecond clock may advance in one run of the rate limiter
MaxTicks == 3
\* client addresses
NumClients == 1
\* courier requests served at the same time
NumInFlight == 2

(***************************************************************************)
(* Status vocabulary.                                                      *)
(***************************************************************************)
\* the finite state set of the specification, in the source's vocabulary
\* (placed = 'pending', sent-to-courier = 'sended')
StateSet ==
    {"pending", "received", "issued", "sended", "in-transit", "delivered", "cancelled"}

\* ENUM of column orders.status
EnumStatus == {"pending", "received", "issued", "sended", "in-transit", "delivered"}

\* JS truthiness of a status value taken from a request body
Falsy(s) == s \in {"undefined", "null", ""}

\* status values a request may carry
StatusInputs == StateSet \cup {"undefined", "bogus"}

\* the courier transition table
validTransitions ==
    [s \in {"sended", "in-transit", "delivered"} |->
        CASE s = "sended" -> {"in-transit", "delivered"}
          [] s = "in-transit" -> {"delivered"}
          [] s = "delivered" -> {}]

\* the check, were it to accept every courier status as a target
isValidStatusTransitionAny(currentStatus, newStatus) ==
    newStatus \in {"sended", "in-transit", "delivered"}

\* CourierController.isValidStatusTransition
isValidStatusTransition(currentStatus, newStatus) ==
    /\ currentStatus \in DOMAIN validTransitions
    /\ newStatus \in validTransitions[currentStatus]


(***************************************************************************)
(* Texts and numbers of a request body.                                    *)
(***************************************************************************)
Digits == {"0", "1", "2", "3", "4", "5", "6", "7", "8", "9"}

RECURSIVE trimStart(_)
trimStart(s) ==
    IF s # <<>> /\ Head(s) = " " THEN trimStart(Tail(s)) ELSE s

RECURSIVE trimEnd(_)
trimEnd(s) ==
    IF s # <<>> /\ s[Len(s)] = " " THEN trimEnd(SubSeq(s, 1, Len(s) - 1)) ELSE s

\* String.prototype.trim
trim(s) == trimEnd(trimStart(s))

\* the replacement, were it to keep plus signs
stripSeparatorsNoPlus(s) == SelectSeq(s, LAMBDA c : c \notin {" ", "-"})

\* mobile.replace(/[\s\-\+]/g, '')
stripSeparators(s) == SelectSeq(s, LAMBDA c : c \notin {" ", "-", "+"})

\* /^[0-9]{10,15}$/.test(s)
isMobileDigits(s) ==
    /\ Len(s) >= 10
    /\ Len(s) <= 15
    /\ \A i \in 1..Len(s) : s[i] \in Digits

Undef == <<"undef", 0>>
Num(n) == <<"num", n>>
\* a text that is not a number, such as "abc"
Text == <<"text", 0>>

\* JS truthiness of an optional number or text
Truthy(v) == (v[1] = "num" /\ v[2] # 0) \/ v[1] = "text"

\* parseInt of a numeric value
parseInt(v) == v[2]

\* parseInt(v) is NaN
IsNaN(v) == v[1] # "num"

(***************************************************************************)
(* Product catalog (seed products of both variants).                       *)
(***************************************************************************)
Products == {"PROD001", "PROD002", "PROD003", "PROD004", "PROD005"}

price(p) ==
    CASE p = "PROD001" -> 10000
      [] p = "PROD002" -> 2500
      [] p = "PROD003" -> 1200
      [] p = "PROD004" -> 1500
      [] p = "PROD005" -> 800

(***************************************************************************)
(* Order.validateOrderData                                                 *)
(***************************************************************************)
validateOrderData(data) ==
    (IF data.fullName = <<>> \/ Len(trim(data.fullName)) < 2
        THEN <<"Full name is required (minimum 2 characters)">> ELSE <<>>)
    \o (IF data.address = <<>> \/ Len(trim(data.address)) < 5
        THEN <<"Valid address is required">> ELSE <<>>)
    \o (IF data.mobile = <<>> \/ ~isMobileDigits(stripSeparators(data.mobile))
        THEN <<"Valid mobile number is required">> ELSE <<>>)
    \o (IF Falsy(data.product_id)
        THEN <<"Product ID is required">> ELSE <<>>)
    \o (IF ~Truthy(data.quantity) \/ (~IsNaN(data.quantity) /\ parseInt(data.quantity) < 1)
        THEN <<"Valid quantity is required">> ELSE <<>>)

(***************************************************************************)
(* Table `orders`: column rules of CREATE TABLE orders.                    *)
(***************************************************************************)
\* status ENUM(...) DEFAULT 'pending' (nullable).  A value outside the ENUM
\* is an error in strict sql_mode and is stored as '' otherwise.
ColumnStatus(v) ==
    IF v = "null" \/ v \in EnumStatus THEN [err |-> FALSE, val |-> v]
    ELSE IF sqlStrict THEN [err |-> TRUE, val |-> v]
    ELSE [err |-> FALSE, val |-> ""]

\* the column, were it declared without UNIQUE
DuplicateKeyNever(tbl, code) == FALSE

\* order_id VARCHAR(20) UNIQUE NOT NULL
DuplicateKey(tbl, code) == \E i \in DOMAIN tbl : tbl[i].order_id = code

\* FOREIGN KEY (product_id) REFERENCES products(product_id)
ForeignKey(product_id) == product_id \in Products

\* INSERT INTO orders: result of the statement
DbInsert(tbl, nid, row) ==
    LET st == ColumnStatus(row.status) IN
    IF st.err THEN [threw |-> TRUE, tbl |-> tbl, nextId |-> nid, id |-> 0]
    ELSE IF DuplicateKey(tbl, row.order_id) \/ ~ForeignKey(row.product_id)
        THEN [threw |-> TRUE, tbl |-> tbl, nextId |-> nid + 1, id |-> 0]
    ELSE [threw |-> FALSE,
          tbl |-> [i \in DOMAIN tbl \cup {nid} |->
                     IF i = nid THEN [row EXCEPT !.status = st.val] ELSE tbl[i]],
          nextId |-> nid + 1,
          id |-> nid]

(***************************************************************************)
(* Order model.                                                            *)
(***************************************************************************)
\* Order.generateOrderId: ORD<year><month><day><3-digit random>.  An order
\* code is modelled by the digits after "ORD", the last three split off:
\* <<hi, lo>> is the code whose digits are those of hi followed by lo padded
\* to three digits.
generateOrderId(day, random) == <<20240101 + day, random>>

\* Order.create, were it to validate after the INSERT
Order_createThenValidate(tbl, nid, orderData, random) ==
    LET r == DbInsert(tbl, nid,
                [order_id |-> generateOrderId(today, random),
                 status |-> IF orderData.status = "undefined" THEN "pending"
                            ELSE orderData.status,
                 product_id |-> orderData.product_id,
                 quantity |-> parseInt(orderData.quantity),
                 total_amount |-> IF Truthy(orderData.total_amount)
                                  THEN orderData.total_amount[2]
                                  ELSE parseInt(orderData.quantity) * 10000,
                 createdAt |-> today,
                 updatedAt |-> today])
    IN  IF validateOrderData(orderData) # <<>> \/ IsNaN(orderData.quantity)
        THEN [r EXCEPT !.threw = TRUE, !.id = 0]
        ELSE r

\* Order.create.  A quantity that parses to NaN reaches the INSERT as NaN,
\* which the statement refuses.
Order_create(tbl, nid, orderData, random) ==
    IF validateOrderData(orderData) # <<>> \/ IsNaN(orderData.quantity)
    THEN [threw |-> TRUE, tbl |-> tbl, nextId |-> nid, id |-> 0]
    ELSE DbInsert(tbl, nid,
            [order_id |-> generateOrderId(today, random),
             status |-> IF orderData.status = "undefined" THEN "pending"
                        ELSE orderData.status,
             product_id |-> orderData.product_id,
             quantity |-> parseInt(orderData.quantity),
             total_amount |-> IF Truthy(orderData.total_amount)
                              THEN orderData.total_amount[2]
                              ELSE parseInt(orderData.quantity) * 10000,
             createdAt |-> today,
             updatedAt |-> today])

\* Order.findById
Found(tbl, id) == id \in DOMAIN tbl

\* updatedAt TIMESTAMP ... ON UPDATE CURRENT_TIMESTAMP: the column is set to
\* the current time when an UPDATE changes the value of a column of the row
Touch(old, new) == IF new = old THEN old ELSE [new EXCEPT !.updatedAt = today]

\* Order.updateStatus: UPDATE orders SET status = ? WHERE id = ?; findById
Order_updateStatus(tbl, id, status) ==
    LET st == ColumnStatus(status) IN
    IF ~Found(tbl, id) THEN [threw |-> FALSE, tbl |-> tbl, found |-> FALSE]
    ELSE IF st.err THEN [threw |-> TRUE, tbl |-> tbl, found |-> TRUE]
    ELSE [threw |-> FALSE,
          tbl |-> [tbl EXCEPT ![id] = Touch(tbl[id], [tbl[id] EXCEPT !.status = st.val])],
          found |-> TRUE]

\* the list, were it to name the order code too
allowedFieldsWithCode == {"order_id", "product_id", "quantity", "status", "total_amount"}

\* the fields of a body that Order.update copies into the UPDATE statement
allowedFields == {"product_id", "quantity", "status", "total_amount"}

Defined(updateData, field) ==
    CASE field = "status" -> updateData.status # "undefined"
      [] field = "product_id" -> updateData.product_id # "undefined"
      [] field = "quantity" -> updateData.quantity # Undef
      [] field = "total_amount" -> updateData.total_amount # Undef
      [] field = "order_id" -> updateData.order_id # <<>>

SetRow(row, updateData, fields, st) ==
    [order_id |-> IF "order_id" \in fields /\ Defined(updateData, "order_id")
                  THEN updateData.order_id ELSE row.order_id,
     status |-> IF "status" \in fields /\ Defined(updateData, "status")
                THEN st ELSE row.status,
     product_id |-> IF "product_id" \in fields /\ Defined(updateData, "product_id")
                    THEN updateData.product_id ELSE row.product_id,
     quantity |-> IF "quantity" \in fields /\ Defined(updateData, "quantity")
                  THEN updateData.quantity[2] ELSE row.quantity,
     total_amount |-> IF "total_amount" \in fields /\ Defined(updateData, "total_amount")
                      THEN updateData.total_amount[2] ELSE row.total_amount,
     createdAt |-> row.createdAt,
     updatedAt |-> row.updatedAt]

\* Order.update: `null` = TRUE when the method returns null
Order_update(tbl, id, updateData) ==
    LET st == ColumnStatus(updateData.status) IN
    IF \A f \in allowedFields : ~Defined(updateData, f)
    THEN [threw |-> FALSE, tbl |-> tbl, null |-> TRUE]
    ELSE IF ~Found(tbl, id) THEN [threw |-> FALSE, tbl |-> tbl, null |-> TRUE]
    ELSE IF \/ Defined(updateData, "status") /\ st.err
            \/ Defined(updateData, "product_id") /\ ~ForeignKey(updateData.product_id)
    THEN [threw |-> TRUE, tbl |-> tbl, null |-> FALSE]
    ELSE [threw |-> FALSE,
          tbl |-> [tbl EXCEPT ![id] =
                     Touch(tbl[id], SetRow(tbl[id], updateData, allowedFields, st.val))],
          null |-> FALSE]

\* Order.delete
Order_delete(tbl, id) == [i \in DOMAIN tbl \ {id} |-> tbl[i]]

(***************************************************************************)
(* Requests and responses.                                                 *)
(***************************************************************************)
\* a request body none of whose fields is present
NoBody ==
    [fullName |-> <<>>, address |-> <<>>, mobile |-> <<>>, product |-> "undefined",
     product_id |-> "undefined", quantity |-> Undef, status |-> "undefined",
     total_amount |-> Undef, order_id |-> <<>>]

\* status of order `id` in the table, "none" when there is no such order
StatusOf(tbl, id) == IF id \in DOMAIN tbl THEN tbl[id].status ELSE "none"

\* the request handled and the HTTP status code of the response
Resp(op, code, id, target, prev, req) ==
    [op |-> op, code |-> code, id |-> id, target |-> target, prev |-> prev,
     req |-> req, ids |-> <<>>, faults |-> <<>>, successful |-> <<>>, failed |-> <<>>,
     data |-> <<>>, errors |-> <<>>]

\* a 200 response whose `data` is the order the repository returned: the row
\* read back after the statement
Returning(resp, tbl, id) ==
    IF resp.code = 200 /\ id \in DOMAIN tbl THEN [resp EXCEPT !.data = <<tbl[id]>>]
    ELSE resp

(***************************************************************************)
(* Relational server (server-db.js): order routes.                         *)
(***************************************************************************)
\* POST /api/orders: the handler on a table, with the code and the messages
\* of its response
PostOrdersHandler(tbl, nid, body, random) ==
    IF body.fullName = <<>> \/ body.address = <<>> \/ body.mobile = <<>>
    THEN [code |-> 400, tbl |-> tbl, nextId |-> nid, id |-> 0,
          errors |-> <<"Missing required fields">>]
    ELSE LET r == Order_create(tbl, nid, body, random) IN
         [code |-> IF r.threw THEN 500 ELSE 201, tbl |-> r.tbl, nextId |-> r.nextId,
          id |-> r.id, errors |-> validateOrderData(body)]

\* POST /api/orders
PostOrders(body, random) ==
    /\ variant = "db"
    /\ LET r == PostOrdersHandler(orders, nextId, body, random) IN
       /\ orders' = r.tbl
       /\ nextId' = r.nextId
       /\ last' = [Resp("PostOrders", r.code, r.id, "undefined", "none", body)
                      EXCEPT !.errors = r.errors]
    /\ UNCHANGED <<variant, sqlStrict, aside, memOrders, today>>

\* PUT /api/orders/:id/status: the handler on a table, with the code of its
\* response
PutOrderStatusHandler(tbl, id, status) ==
    IF id < 1 THEN [code |-> 400, tbl |-> tbl]
    ELSE IF Falsy(status) \/ status \notin StateSet THEN [code |-> 400, tbl |-> tbl]
    ELSE LET r == Order_updateStatus(tbl, id, status) IN
         [code |-> IF r.threw THEN 500 ELSE IF ~r.found THEN 404 ELSE 200, tbl |-> r.tbl]

\* PUT /api/orders/:id/status
PutOrderStatus(id, status) ==
    /\ variant = "db"
    /\ LET r == PutOrderStatusHandler(orders, id, status) IN
       /\ orders' = r.tbl
       /\ last' = Returning(Resp("PutOrderStatus", r.code, id, status,
                                 StatusOf(orders, id), NoBody), r.tbl, id)
    /\ UNCHANGED <<variant, sqlStrict, aside, nextId, memOrders, today>>

\* PUT /api/orders/:id
PutOrder(id, body) ==
    /\ variant = "db"
    /\ LET r == Order_update(orders, id, body) IN
       /\ orders' = r.tbl
       /\ last' = Resp("PutOrder",
                       IF r.threw THEN 500 ELSE IF r.null THEN 404 ELSE 200,
                       id, body.status, StatusOf(orders, id), body)
    /\ UNCHANGED <<variant, sqlStrict, aside, nextId, memOrders, today>>

\* DELETE /api/orders/:id
DeleteOrders(id) ==
    /\ variant = "db"
    /\ orders' = Order_delete(orders, id)
    /\ last' = Resp("DeleteOrders", 200, id, "undefined", StatusOf(orders, id), NoBody)
    /\ UNCHANGED <<variant, sqlStrict, aside, nextId, memOrders, today>>

(***************************************************************************)
(* OrdersController.                                                       *)
(***************************************************************************)
\* OrdersController.createOrder
createOrder(body, random) ==
    /\ variant = "db"
    /\ IF body.product_id \notin Products
       THEN /\ UNCHANGED <<orders, nextId>>
            /\ last' = Resp("createOrder", 400, 0, "undefined", "none", body)
       ELSE LET orderData ==
                    [body EXCEPT
                       !.status = "undefined",
                       !.total_amount =
                           IF Truthy(body.total_amount) THEN body.total_amount
                           ELSE IF body.quantity[1] = "num"
                           THEN Num(parseInt(body.quantity) * price(body.product_id))
                           ELSE Undef]
                r == Order_create(orders, nextId, orderData, random)
            IN  /\ orders' = r.tbl
                /\ nextId' = r.nextId
                /\ last' = Resp("createOrder", IF r.threw THEN 500 ELSE 201, r.id,
                                "undefined", "none", body)
    /\ UNCHANGED <<variant, sqlStrict, aside, memOrders, today>>

\* the body OrdersController.updateOrder hands to Order.update
updateOrderData(order, body) ==
    LET b1 == IF /\ ~Falsy(body.product_id)
                 /\ body.product_id # order.product_id
                 /\ ~Truthy(body.total_amount)
              THEN [body EXCEPT !.total_amount =
                       Num((IF Truthy(body.quantity) THEN body.quantity[2]
                            ELSE order.quantity) * price(body.product_id))]
              ELSE body
    IN  IF Truthy(b1.quantity) /\ ~Truthy(b1.total_amount) /\ order.product_id \in Products
        THEN [b1 EXCEPT !.total_amount = Num(b1.quantity[2] * price(order.product_id))]
        ELSE b1

\* OrdersController.updateOrder
updateOrder(id, body) ==
    /\ variant = "db"
    /\ IF ~Found(orders, id)
       THEN /\ UNCHANGED orders
            /\ last' = Resp("updateOrder", 404, id, body.status, "none", body)
       ELSE IF ~Falsy(body.product_id) /\ body.product_id # orders[id].product_id
               /\ body.product_id \notin Products
       THEN /\ UNCHANGED orders
            /\ last' = Resp("updateOrder", 400, id, body.status, orders[id].status, body)
       ELSE LET r == Order_update(orders, id, updateOrderData(orders[id], body)) IN
            /\ orders' = r.tbl
            /\ last' = Resp("updateOrder", IF r.threw THEN 500 ELSE 200,
                            id, body.status, orders[id].status, body)
    /\ UNCHANGED <<variant, sqlStrict, aside, nextId, memOrders, today>>

\* statuses OrdersController.updateOrderStatus accepts
controllerStatuses == {"pending", "received", "issued", "sended", "in-transit", "delivered"}

\* OrdersController.updateOrderStatus
updateOrderStatus(id, status) ==
    /\ variant = "db"
    /\ IF Falsy(status) \/ status \notin controllerStatuses
       THEN /\ UNCHANGED orders
            /\ last' = Resp("updateOrderStatus", 400, id, status, StatusOf(orders, id), NoBody)
       ELSE IF ~Found(orders, id)
       THEN /\ UNCHANGED orders
            /\ last' = Resp("updateOrderStatus", 404, id, status, "none", NoBody)
       ELSE LET r == Order_updateStatus(orders, id, status) IN
            /\ orders' = r.tbl
            /\ last' = Returning(Resp("updateOrderStatus", IF r.threw THEN 500 ELSE 200,
                            id, status, orders[id].status, NoBody), r.tbl, id)
    /\ UNCHANGED <<variant, sqlStrict, aside, nextId, memOrders, today>>

\* OrdersController.deleteOrder
deleteOrder(id) ==
    /\ variant = "db"
    /\ IF ~Found(orders, id)
       THEN /\ UNCHANGED orders
            /\ last' = Resp("deleteOrder", 404, id, "undefined", "none", NoBody)
       ELSE /\ orders' = Order_delete(orders, id)
            /\ last' = Resp("deleteOrder", 200, id, "undefined", orders[id].status, NoBody)
    /\ UNCHANGED <<variant, sqlStrict, aside, nextId, memOrders, today>>

\* OrdersController.sendToCourier
sendToCourier(id) ==
    /\ variant = "db"
    /\ IF ~Found(orders, id)
       THEN /\ UNCHANGED orders
            /\ last' = Resp("sendToCourier", 404, id, "sended", "none", NoBody)
       ELSE LET r == Order_updateStatus(orders, id, "sended") IN
            /\ orders' = r.tbl
            /\ last' = Returning(Resp("sendToCourier", IF r.threw THEN 500 ELSE 200,
                            id, "sended", orders[id].status, NoBody), r.tbl, id)
    /\ UNCHANGED <<variant, sqlStrict, aside, nextId, memOrders, today>>

(***************************************************************************)
(* CourierController.                                                      *)
(***************************************************************************)
\* statuses the courier endpoints accept in a request
courierStatuses == {"sended", "in-transit", "delivered"}

\* CourierController.updateCourierStatus on a table, with the code of its
\* response; `fault` says that the repository throws (findById or
\* updateStatus rejects; nothing is written) and the error goes to next()
updateCourierStatusHandler(tbl, id, status, fault) ==
    IF Falsy(status) \/ status \notin courierStatuses
    THEN [code |-> 400, tbl |-> tbl, prev |-> StatusOf(tbl, id)]
    ELSE IF fault THEN [code |-> 500, tbl |-> tbl, prev |-> StatusOf(tbl, id)]
    ELSE IF ~Found(tbl, id) THEN [code |-> 404, tbl |-> tbl, prev |-> "none"]
    ELSE IF ~isValidStatusTransition(tbl[id].status, status)
    THEN [code |-> 400, tbl |-> tbl, prev |-> tbl[id].status]
    ELSE LET r == Order_updateStatus(tbl, id, status) IN
         [code |-> IF r.threw THEN 500 ELSE 200, tbl |-> r.tbl, prev |-> tbl[id].status]

\* CourierController.updateCourierStatus
updateCourierStatus(id, status) ==
    /\ variant = "db"
    /\ LET r == updateCourierStatusHandler(orders, id, status, FALSE) IN
       /\ orders' = r.tbl
       /\ last' = Returning(Resp("updateCourierStatus", r.code, id, status, r.prev,
                                 NoBody), r.tbl, id)
    /\ UNCHANGED <<variant, sqlStrict, aside, nextId, memOrders, today>>

\* CourierController.getPossibleNextStatuses: statusMap[currentStatus] || []
getPossibleNextStatuses(currentStatus) ==
    CASE currentStatus = "sended" ->
            << [value |-> "in-transit", label |-> "In Transit"],
               [value |-> "delivered", label |-> "Delivered"] >>
      [] currentStatus = "in-transit" ->
            << [value |-> "delivered", label |-> "Delivered"] >>
      [] OTHER -> <<>>

\* CourierController.getNextStatuses
getNextStatuses(id) ==
    /\ variant = "db"
    /\ IF ~Found(orders, id)
       THEN last' = Resp("getNextStatuses", 404, id, "undefined", "none", NoBody)
       ELSE last' = [Resp("getNextStatuses", 200, id, "undefined", orders[id].status,
                          NoBody)
                       EXCEPT !.data = getPossibleNextStatuses(orders[id].status)]
    /\ UNCHANGED <<variant, sqlStrict, aside, orders, nextId, memOrders, today>>

\* the loop of bulkUpdateStatus, were a failed entry to end it
RECURSIVE bulkLoopAbort(_, _, _, _, _)
bulkLoopAbort(tbl, orderIds, faults, status, results) ==
    IF orderIds = <<>> THEN [tbl |-> tbl, results |-> results]
    ELSE LET orderId == Head(orderIds)
             fail(e) == [tbl |-> tbl,
                         results |-> [results EXCEPT !.failed =
                                        Append(@, [id |-> orderId, error |-> e])]]
         IN  IF Head(faults) THEN fail("error")
             ELSE IF ~Found(tbl, orderId) THEN fail("Order not found")
             ELSE IF ~isValidStatusTransition(tbl[orderId].status, status)
             THEN fail("Invalid transition")
             ELSE bulkLoopAbort(Order_updateStatus(tbl, orderId, status).tbl,
                       Tail(orderIds), Tail(faults), status,
                       [results EXCEPT !.successful = Append(@, orderId)])

\* the loop of CourierController.bulkUpdateStatus over orderIds; faults[i]
\* says that the repository throws while entry i is processed (findById or
\* updateStatus rejects; nothing is written)
RECURSIVE bulkLoop(_, _, _, _, _)
bulkLoop(tbl, orderIds, faults, status, results) ==
    IF orderIds = <<>> THEN [tbl |-> tbl, results |-> results]
    ELSE LET orderId == Head(orderIds)
             fail(e) == bulkLoop(tbl, Tail(orderIds), Tail(faults), status,
                           [results EXCEPT !.failed =
                              Append(@, [id |-> orderId, error |-> e])])
         IN  IF Head(faults) THEN fail("error")
             ELSE IF ~Found(tbl, orderId) THEN fail("Order not found")
             ELSE IF ~isValidStatusTransition(tbl[orderId].status, status)
             THEN fail("Invalid transition")
             ELSE bulkLoop(Order_updateStatus(tbl, orderId, status).tbl,
                       Tail(orderIds), Tail(faults), status,
                       [results EXCEPT !.successful = Append(@, orderId)])

\* CourierController.bulkUpdateStatus
bulkUpdateStatus(orderIds, status, faults) ==
    /\ variant = "db"
    /\ Len(faults) = Len(orderIds)
    /\ IF orderIds = <<>> \/ Falsy(status) \/ status \notin courierStatuses
       THEN /\ UNCHANGED orders
            /\ last' = [Resp("bulkUpdateStatus", 400, 0, status, "none", NoBody)
                          EXCEPT !.ids = orderIds, !.faults = faults]
       ELSE LET r == bulkLoop(orders, orderIds, faults, status,
                              [successful |-> <<>>, failed |-> <<>>]) IN
            /\ orders' = r.tbl
            /\ last' = [Resp("bulkUpdateStatus", 200, 0, status, "none", NoBody)
                          EXCEPT !.ids = orderIds, !.faults = faults,
                                 !.successful = r.results.successful,
                                 !.failed = r.results.failed]
    /\ UNCHANGED <<variant, sqlStrict, aside, nextId, memOrders, today>>

(***************************************************************************)
(* In-memory server.                                                       *)
(***************************************************************************)
\* the array `orders` the in-memory server starts with (createdAt: days
\* since 2024-01-01)
MemSeed ==
    << [id |-> 1, order_id |-> <<202401, 1>>, status |-> "received",
        product_id |-> "PROD001", quantity |-> 2, total_amount |-> 20000,
        createdAt |-> 0],
       [id |-> 2, order_id |-> <<202401, 2>>, status |-> "received",
        product_id |-> "PROD001", quantity |-> 3, total_amount |-> 30000,
        createdAt |-> 1],
       [id |-> 3, order_id |-> <<202401, 3>>, status |-> "received",
        product_id |-> "PROD001", quantity |-> 1, total_amount |-> 10000,
        createdAt |-> 2],
       [id |-> 4, order_id |-> <<202401, 4>>, status |-> "sended",
        product_id |-> "PROD001", quantity |-> 2, total_amount |-> 20000,
        createdAt |-> 3] >>

\* index of the order with the given id (orders.findIndex), 0 when absent
MemIndex(arr, id) ==
    IF \E i \in 1..Len(arr) : arr[i].id = id
    THEN CHOOSE i \in 1..Len(arr) :
            arr[i].id = id /\ \A j \in 1..(i - 1) : arr[j].id # id
    ELSE 0

\* the checks of POST /api/orders of the in-memory server: the message of
\* the first check that fails
MemPostErrors(body) ==
    IF \/ body.fullName = <<>> \/ body.address = <<>> \/ body.mobile = <<>>
       \/ Falsy(body.product) \/ ~Truthy(body.quantity)
    THEN <<"All fields are required">>
    ELSE IF Len(trim(body.fullName)) < 2
    THEN <<"Valid full name is required (minimum 2 characters)">>
    ELSE IF ~isMobileDigits(stripSeparators(body.mobile))
    THEN <<"Valid mobile number is required (10-15 digits)">>
    ELSE IF \/ IsNaN(body.quantity)
            \/ parseInt(body.quantity) < 1
            \/ parseInt(body.quantity) > 100
    THEN <<"Valid quantity is required (1-100)">>
    ELSE <<>>

\* POST /api/orders of the in-memory server: the handler on an array, with
\* the code and the message of its response
MemPostOrdersHandler(arr, body) ==
    LET qty == parseInt(body.quantity) IN
    IF MemPostErrors(body) # <<>>
    THEN [code |-> 400, arr |-> arr, id |-> 0, errors |-> MemPostErrors(body)]
    ELSE [code |-> 201,
          arr |-> Append(arr,
                [id |-> Len(arr) + 1,
                 order_id |-> <<2024, Len(arr) + 1>>,
                 status |-> "received",
                 product_id |-> "PROD001",
                 quantity |-> qty,
                 total_amount |-> 10000 * qty,
                 createdAt |-> today]),
          id |-> Len(arr) + 1,
          errors |-> <<>>]

\* POST /api/orders of the in-memory server
MemPostOrders(body) ==
    /\ variant = "mem"
    /\ LET r == MemPostOrdersHandler(memOrders, body) IN
       /\ memOrders' = r.arr
       /\ last' = [Resp("MemPostOrders", r.code, r.id, "undefined", "none", body)
                      EXCEPT !.errors = r.errors]
    /\ UNCHANGED <<variant, sqlStrict, aside, orders, nextId, today>>

\* statuses the in-memory status route accepts
memStatuses == {"received", "sended"}

\* PUT /api/orders/:id/status of the in-memory server: the handler on an
\* array, with the code of its response
MemPutOrderStatusHandler(arr, id, status) ==
    LET orderIndex == MemIndex(arr, id) IN
    IF id < 1 THEN [code |-> 400, arr |-> arr]
    ELSE IF orderIndex = 0 THEN [code |-> 404, arr |-> arr]
    ELSE IF Falsy(status) \/ status \notin memStatuses THEN [code |-> 400, arr |-> arr]
    ELSE [code |-> 200, arr |-> [arr EXCEPT ![orderIndex].status = status]]

\* PUT /api/orders/:id/status of the in-memory server
MemPutOrderStatus(id, status) ==
    /\ variant = "mem"
    /\ LET orderIndex == MemIndex(memOrders, id)
           prev == IF orderIndex = 0 THEN "none" ELSE memOrders[orderIndex].status
           r == MemPutOrderStatusHandler(memOrders, id, status)
       IN  /\ memOrders' = r.arr
           /\ last' = IF r.code = 200
                      THEN [Resp("MemPutOrderStatus", 200, id, status, prev, NoBody)
                              EXCEPT !.data = <<r.arr[orderIndex]>>]
                      ELSE Resp("MemPutOrderStatus", r.code, id, status, prev, NoBody)
    /\ UNCHANGED <<variant, sqlStrict, aside, orders, nextId, today>>

(***************************************************************************)
(* Dashboard statistics.                                                   *)
(***************************************************************************)
\* a field of a response: SQL NULL, or not in the response at all
Null == <<"null", 0>>
Absent == <<"absent", 0>>

\* month a day falls in (day 0 is 2024-01-01; months are counted as 31 days)
MonthOf(day) == day \div 31

RECURSIVE SumAmounts(_, _)
SumAmounts(tbl, ids) ==
    IF ids = {} THEN 0
    ELSE LET id == CHOOSE x \in ids : TRUE
         IN  tbl[id].total_amount + SumAmounts(tbl, ids \ {id})

\* SUM(CASE WHEN ... THEN 1 ELSE 0 END): NULL over a table without rows
SumCase(tbl, ids) == IF DOMAIN tbl = {} THEN Null ELSE Num(Cardinality(ids))

\* Order.getDashboardStats: the row of aggregates
getDashboardStats(tbl) ==
    LET rows == DOMAIN tbl IN
    [total |-> Num(Cardinality(rows)),
     pending |-> SumCase(tbl, {id \in rows : tbl[id].status = "pending"}),
     received |-> SumCase(tbl, {id \in rows : tbl[id].status = "received"}),
     issued |-> SumCase(tbl, {id \in rows : tbl[id].status = "issued"}),
     courier |-> SumCase(tbl, {id \in rows :
                    tbl[id].status \in {"sended", "in-transit", "delivered"}}),
     today |-> SumCase(tbl, {id \in rows : tbl[id].createdAt = today}),
     monthly |-> SumCase(tbl, {id \in rows :
                    MonthOf(tbl[id].createdAt) = MonthOf(today)}),
     total_revenue |-> IF rows = {} THEN Null ELSE Num(SumAmounts(tbl, rows))]

\* parseInt(x) || 0
IntOrZero(v) == IF v[1] = "num" THEN v ELSE Num(0)

\* DashboardController.getStats: the row as the repository returned it; when
\* the repository is unavailable the query rejects and the error is handed
\* to next()
getStats(unavailable) ==
    /\ variant = "db"
    /\ last' = IF unavailable
               THEN [Resp("getStats", 500, 0, "undefined", "none", NoBody)
                       EXCEPT !.faults = <<TRUE>>]
               ELSE [Resp("getStats", 200, 0, "undefined", "none", NoBody)
                       EXCEPT !.faults = <<FALSE>>,
                              !.data = <<getDashboardStats(orders)>>]
    /\ UNCHANGED <<variant, sqlStrict, aside, orders, nextId, memOrders, today>>

\* GET /api/dashboard/stats of server-db.js; when the repository is
\* unavailable the catch block answers with zeros
GetDashboardStats(unavailable) ==
    /\ variant = "db"
    /\ LET stats == getDashboardStats(orders) IN
       last' = IF unavailable
               THEN [Resp("GetDashboardStats", 200, 0, "undefined", "none", NoBody)
                       EXCEPT !.faults = <<TRUE>>,
                              !.data =
                                 <<[total |-> Num(0), pending |-> Num(0),
                                    received |-> Num(0), issued |-> Num(0),
                                    courier |-> Num(0), today |-> Num(0),
                                    monthly |-> Num(0), total_revenue |-> Absent]>>]
               ELSE
               [Resp("GetDashboardStats", 200, 0, "undefined", "none", NoBody)
                   EXCEPT !.faults = <<FALSE>>, !.data =
                      <<[total |-> IntOrZero(stats.total),
                         pending |-> IntOrZero(stats.pending),
                         received |-> IntOrZero(stats.received),
                         issued |-> IntOrZero(stats.issued),
                         courier |-> IntOrZero(stats.courier),
                         today |-> IntOrZero(stats.today),
                         monthly |-> IntOrZero(stats.monthly),
                         total_revenue |-> Absent]>>]
    /\ UNCHANGED <<variant, sqlStrict, aside, orders, nextId, memOrders, today>>

\* orders.filter(...).length
MemCount(matching) == Num(Cardinality({i \in 1..Len(memOrders) : memOrders[i] \in matching}))

\* GET /api/dashboard/stats of the in-memory server
MemGetDashboardStats ==
    /\ variant = "mem"
    /\ LET stored == {memOrders[i] : i \in 1..Len(memOrders)}
           isReceived == {o \in stored : o.status = "received"}
           isIssued == {o \in stored : o.status = "issued"}
           isCourier == {o \in stored : o.status = "sended" \/ o.status = "in-transit"}
           isToday == {o \in stored : o.createdAt = today}
           isMonth == {o \in stored : MonthOf(o.createdAt) % 12 = MonthOf(today) % 12}
       IN  last' = [Resp("MemGetDashboardStats", 200, 0, "undefined", "none", NoBody)
                       EXCEPT !.data =
                          <<[total |-> Num(Len(memOrders)),
                             pending |-> MemCount(isReceived),
                             received |-> MemCount(isReceived),
                             issued |-> MemCount(isIssued),
                             courier |-> MemCount(isCourier),
                             today |-> MemCount(isToday),
                             monthly |-> MemCount(isMonth),
                             total_revenue |-> Absent]>>]
    /\ UNCHANGED <<variant, sqlStrict, aside, orders, nextId, memOrders, today>>

(***************************************************************************)
(* Daily series.  Day 0 is 2024-01-01, a Monday; the server's clock is     *)
(* taken to run in UTC, so that a Date's ISO date and its local weekday    *)
(* are those of the same calendar day.                                     *)
(***************************************************************************)
\* const days = ['Sun', 'Mon', 'Tue', 'Wed', 'Thu', 'Fri', 'Sat']
days == <<"Sun", "Mon", "Tue", "Wed", "Thu", "Fri", "Sat">>

\* DAYNAME(date).substring(0, 3), days[date.getDay()]
DayName(day) == days[((day + 1) % 7) + 1]

\* the dates of a set in ascending order (ORDER BY date ASC)
RECURSIVE Ascending(_)
Ascending(dates) ==
    IF dates = {} THEN <<>>
    ELSE LET first == CHOOSE d \in dates : \A e \in dates : d <= e
         IN  <<first>> \o Ascending(dates \ {first})

\* Order.getDailyOrders: one row per date since DATE_SUB(CURDATE(), INTERVAL 7 DAY)
getDailyOrders(tbl) ==
    LET recent == {id \in DOMAIN tbl : tbl[id].createdAt >= today - 7}
        dates == Ascending({tbl[id].createdAt : id \in recent})
        on(date) == {id \in recent : tbl[id].createdAt = date}
    IN  [k \in 1..Len(dates) |->
           [date |-> dates[k],
            day_name |-> DayName(dates[k]),
            order_count |-> Cardinality(on(dates[k])),
            total_revenue |-> SumAmounts(tbl, on(dates[k]))]]

\* formattedData.find(d => d.name === day), 0 when there is none
FindDay(formattedData, day) ==
    IF \E k \in 1..Len(formattedData) : formattedData[k].name = day
    THEN CHOOSE k \in 1..Len(formattedData) :
            /\ formattedData[k].name = day
            /\ \A j \in 1..(k - 1) : formattedData[j].name # day
    ELSE 0

\* DashboardController.getDailyData
getDailyData ==
    /\ variant = "db"
    /\ LET dailyOrders == getDailyOrders(orders)
           formattedData == [k \in 1..Len(dailyOrders) |->
                               [name |-> dailyOrders[k].day_name,
                                orders |-> dailyOrders[k].order_count,
                                revenue |-> dailyOrders[k].total_revenue]]
           completeData == [d \in 1..7 |->
                               LET existing == FindDay(formattedData, days[d]) IN
                               IF existing # 0 THEN formattedData[existing]
                               ELSE [name |-> days[d], orders |-> 0, revenue |-> 0]]
       IN  last' = [Resp("getDailyData", 200, 0, "undefined", "none", NoBody)
                       EXCEPT !.data = completeData]
    /\ UNCHANGED <<variant, sqlStrict, aside, orders, nextId, memOrders, today>>

\* AnalyticsController.generateWeeklyData: the entries of weeklyData in the
\* order the loop inserted them (i = 6 down to 0)
generateWeeklyData(tbl) ==
    [k \in 1..7 |->
        LET date == today - (7 - k)
            on == {id \in DOMAIN tbl : tbl[id].createdAt = date}
        IN  [name |-> DayName(date),
             orders |-> Cardinality(on),
             revenue |-> SumAmounts(tbl, on)]]

\* AnalyticsController.getAnalytics: the weeklyData of the response; when the
\* repository is unavailable the query rejects and the error is handed to
\* next()
getAnalytics(unavailable) ==
    /\ variant = "db"
    /\ last' = IF unavailable
               THEN [Resp("getAnalytics", 500, 0, "undefined", "none", NoBody)
                       EXCEPT !.faults = <<TRUE>>]
               ELSE [Resp("getAnalytics", 200, 0, "undefined", "none", NoBody)
                       EXCEPT !.faults = <<FALSE>>,
                              !.data = generateWeeklyData(orders)]
    /\ UNCHANGED <<variant, sqlStrict, aside, orders, nextId, memOrders, today>>

(***************************************************************************)
(* Delivery timeline.                                                      *)
(***************************************************************************)
\* the checkpoint, were it completed only while the order is in its status
deliveryCompletedExact(checkpoint, status) ==
    CASE checkpoint = "order-placed" -> TRUE
      [] checkpoint = "processed" -> status \in {"received", "issued"}
      [] OTHER -> status = checkpoint

\* CourierController.getDeliveryTimeline: `completed` of a checkpoint
deliveryCompleted(checkpoint, status) ==
    CASE checkpoint = "order-placed" -> TRUE
      [] checkpoint = "processed" ->
            status \in {"received", "issued", "sended", "in-transit", "delivered"}
      [] checkpoint = "sended" -> status \in {"sended", "in-transit", "delivered"}
      [] checkpoint = "in-transit" -> status \in {"in-transit", "delivered"}
      [] checkpoint = "delivered" -> status = "delivered"

\* OrdersController.getOrderTimeline: `completed` of a checkpoint
orderCompleted(checkpoint, status) ==
    CASE checkpoint = "pending" -> TRUE
      [] checkpoint = "received" ->
            status \in {"received", "issued", "sended", "in-transit", "delivered"}
      [] checkpoint = "issued" -> status \in {"issued", "sended", "in-transit", "delivered"}
      [] checkpoint = "sended" -> status \in {"sended", "in-transit", "delivered"}
      [] checkpoint = "in-transit" -> status \in {"in-transit", "delivered"}
      [] checkpoint = "delivered" -> status = "delivered"

\* a timeline entry: the first carries createdAt, a later one updatedAt when
\* it is completed and null otherwise
TimelineEntry(order, k, checkpoint, completed) ==
    [status |-> checkpoint,
     completed |-> completed,
     date |-> IF k = 1 THEN Num(order.createdAt)
              ELSE IF completed THEN Num(order.updatedAt) ELSE Null]

\* CourierController.getDeliveryTimeline
getDeliveryTimeline(id) ==
    /\ variant = "db"
    /\ IF ~Found(orders, id)
       THEN last' = Resp("getDeliveryTimeline", 404, id, "undefined", "none", NoBody)
       ELSE LET order == orders[id]
                checkpoints == <<"order-placed", "processed", "sended", "in-transit",
                                 "delivered">>
            IN  last' = [Resp("getDeliveryTimeline", 200, id, "undefined", order.status,
                              NoBody)
                           EXCEPT !.data =
                              [k \in 1..Len(checkpoints) |->
                                 TimelineEntry(order, k, checkpoints[k],
                                    deliveryCompleted(checkpoints[k], order.status))]]
    /\ UNCHANGED <<variant, sqlStrict, aside, orders, nextId, memOrders, today>>

\* OrdersController.getOrderTimeline
getOrderTimeline(id) ==
    /\ variant = "db"
    /\ IF ~Found(orders, id)
       THEN last' = Resp("getOrderTimeline", 404, id, "undefined", "none", NoBody)
       ELSE LET order == orders[id]
                checkpoints == <<"pending", "received", "issued", "sended", "in-transit",
                                 "delivered">>
            IN  last' = [Resp("getOrderTimeline", 200, id, "undefined", order.status,
                              NoBody)
                           EXCEPT !.data =
                              [k \in 1..Len(checkpoints) |->
                                 TimelineEntry(order, k, checkpoints[k],
                                    orderCompleted(checkpoints[k], order.status))]]
    /\ UNCHANGED <<variant, sqlStrict, aside, orders, nextId, memOrders, today>>

(***************************************************************************)
(* Lists of orders.                                                        *)
(***************************************************************************)
\* the listings of a set of rows under ORDER BY createdAt DESC: every row
\* once, a later row never created after an earlier one (rows of one day
\* come in any order)
Listings(tbl, ids) ==
    {[k \in 1..Cardinality(ids) |-> tbl[s[k]]] :
        s \in {t \in [1..Cardinality(ids) -> ids] :
                 /\ \A j, k \in 1..Cardinality(ids) : j # k => t[j] # t[k]
                 /\ \A j, k \in 1..Cardinality(ids) :
                       j < k => tbl[t[j]].createdAt >= tbl[t[k]].createdAt}}

\* Order.getAll(filters) with at most a status filter: the ids of the rows
\* selected ("undefined": no filter)
getAll(tbl, status) ==
    IF status = "undefined" THEN DOMAIN tbl
    ELSE {id \in DOMAIN tbl : tbl[id].status = status}

\* what binding an array to the placeholder of `status = ?` can do: the
\* statement is refused, or the array is compared as one text that no
\* status equals
ArrayBindings == {"refused", "no-match"}

\* CourierController.getCourierOrders
getCourierOrders(status, binding) ==
    /\ variant = "db"
    /\ IF ~Falsy(status) /\ status # "all"
       THEN LET selected == getAll(orders, status)
                courierOrders == {id \in selected : orders[id].status \in
                                    {"sended", "in-transit", "delivered"}}
            IN  \E listing \in Listings(orders, courierOrders) :
                   last' = [Resp("getCourierOrders", 200, 0, status, "none", NoBody)
                              EXCEPT !.data = listing]
       ELSE IF binding = "refused"
       THEN last' = Resp("getCourierOrders", 500, 0, status, "none", NoBody)
       ELSE last' = Resp("getCourierOrders", 200, 0, status, "none", NoBody)
    /\ UNCHANGED <<variant, sqlStrict, aside, orders, nextId, memOrders, today>>

\* GET /api/courier/orders of server-db.js
GetCourierOrders ==
    /\ variant = "db"
    /\ LET courierOrders == {id \in getAll(orders, "undefined") :
                               orders[id].status \in {"sended", "in-transit", "delivered"}}
       IN  \E listing \in Listings(orders, courierOrders) :
              last' = [Resp("GetCourierOrders", 200, 0, "undefined", "none", NoBody)
                         EXCEPT !.data = listing]
    /\ UNCHANGED <<variant, sqlStrict, aside, orders, nextId, memOrders, today>>

\* GET /api/courier/orders of the in-memory server
MemGetCourierOrders ==
    /\ variant = "mem"
    /\ last' = [Resp("MemGetCourierOrders", 200, 0, "undefined", "none", NoBody)
                  EXCEPT !.data =
                     SelectSeq(memOrders, LAMBDA o :
                        o.status = "sended" \/ o.status = "in-transit"
                           \/ o.status = "delivered")]
    /\ UNCHANGED <<variant, sqlStrict, aside, orders, nextId, memOrders, today>>

(***************************************************************************)
(* Analytics route of server-db.js.                                        *)
(***************************************************************************)
\* GET /api/analytics of server-db.js; when the repository is unavailable
\* the catch block answers with zeros and empty lists
GetAnalytics(unavailable) ==
    /\ variant = "db"
    /\ IF unavailable
       THEN last' = [Resp("GetAnalytics", 200, 0, "undefined", "none", NoBody)
                       EXCEPT !.faults = <<TRUE>>,
                              !.data = <<[totalRevenue |-> Num(0), totalOrders |-> Num(0),
                                          statusData |-> <<>>, orders |-> <<>>]>>]
       ELSE LET stats == getDashboardStats(orders) IN
            \E listing \in Listings(orders, getAll(orders, "undefined")) :
               last' = [Resp("GetAnalytics", 200, 0, "undefined", "none", NoBody)
                          EXCEPT !.faults = <<FALSE>>,
                                 !.data =
                                    <<[totalRevenue |-> IntOrZero(stats.total_revenue),
                                       totalOrders |-> IntOrZero(stats.total),
                                       statusData |->
                                          <<[name |-> "Pending",
                                             value |-> IntOrZero(stats.pending)],
                                            [name |-> "Received",
                                             value |-> IntOrZero(stats.received)],
                                            [name |-> "Issued",
                                             value |-> IntOrZero(stats.issued)],
                                            [name |-> "Sent to Courier",
                                             value |-> IntOrZero(stats.courier)]>>,
                                       orders |-> listing]>>]
    /\ UNCHANGED <<variant, sqlStrict, aside, orders, nextId, memOrders, today>>

(***************************************************************************)
(* Courier requests in flight.  A handler runs until its next await; the   *)
(* statement it awaits is executed by the database at some later moment,   *)
(* and statements of other requests may be executed in between.  The       *)
(* repository answers every statement, and a slot serves one request.      *)
(***************************************************************************)
Slots == 1..NumInFlight

\* no request in the slot
Idle ==
    [pc |-> "idle", kind |-> "none", orderIds |-> <<>>, rest |-> <<>>,
     status |-> "undefined", successful |-> <<>>, failed |-> <<>>]

\* the request of the slot has been answered
Served == [Idle EXCEPT !.pc = "served"]

\* the request of a slot has finished its entry: a bulk request goes on with
\* the next entry, and the response is sent after the last one
EntryDone(r, req, response) ==
    IF req.kind = "bulk" /\ Tail(req.rest) # <<>>
    THEN /\ inFlight' = [inFlight EXCEPT ![r] = [req EXCEPT !.pc = "findById",
                                                            !.rest = Tail(req.rest)]]
         /\ UNCHANGED last
    ELSE /\ inFlight' = [inFlight EXCEPT ![r] = Served]
         /\ last' = IF req.kind = "bulk"
                    THEN [Resp("bulkUpdateStatus", 200, 0, req.status, "none", NoBody)
                            EXCEPT !.ids = req.orderIds,
                                   !.faults = [i \in 1..Len(req.orderIds) |-> FALSE],
                                   !.successful = req.successful,
                                   !.failed = req.failed]
                    ELSE response

\* CourierController.updateCourierStatus is called: the checks before the
\* first await
BeginUpdateCourierStatus(r, id, status) ==
    /\ variant = "db"
    /\ inFlight[r].pc = "idle"
    /\ IF Falsy(status) \/ status \notin courierStatuses
       THEN /\ last' = Resp("updateCourierStatus", 400, id, status,
                            StatusOf(orders, id), NoBody)
            /\ inFlight' = [inFlight EXCEPT ![r] = Served]
       ELSE /\ inFlight' = [inFlight EXCEPT ![r] =
                               [Idle EXCEPT !.pc = "findById", !.kind = "single",
                                            !.orderIds = <<id>>, !.rest = <<id>>,
                                            !.status = status]]
            /\ UNCHANGED last
    /\ UNCHANGED <<variant, sqlStrict, limiter, orders, nextId, memOrders, today>>

\* CourierController.bulkUpdateStatus is called: the checks before the loop
BeginBulkUpdateStatus(r, orderIds, status) ==
    /\ variant = "db"
    /\ inFlight[r].pc = "idle"
    /\ IF orderIds = <<>> \/ Falsy(status) \/ status \notin courierStatuses
       THEN /\ last' = [Resp("bulkUpdateStatus", 400, 0, status, "none", NoBody)
                          EXCEPT !.ids = orderIds,
                                 !.faults = [i \in 1..Len(orderIds) |-> FALSE]]
            /\ inFlight' = [inFlight EXCEPT ![r] = Served]
       ELSE /\ inFlight' = [inFlight EXCEPT ![r] =
                               [Idle EXCEPT !.pc = "findById", !.kind = "bulk",
                                            !.orderIds = orderIds, !.rest = orderIds,
                                            !.status = status]]
            /\ UNCHANGED last
    /\ UNCHANGED <<variant, sqlStrict, limiter, orders, nextId, memOrders, today>>

\* await Order.findById(id) of a request in flight is answered, and the
\* handler runs on to its next await: Order.updateStatus is called when the
\* order exists and the transition from the status just read is valid
AwaitFindById(r) ==
    /\ variant = "db"
    /\ inFlight[r].pc = "findById"
    /\ LET req == inFlight[r]
           id == Head(req.rest)
       IN  IF ~Found(orders, id)
           THEN EntryDone(r, [req EXCEPT !.failed =
                                 Append(@, [id |-> id, error |-> "Order not found"])],
                          Resp("updateCourierStatus", 404, id, req.status, "none", NoBody))
           ELSE IF ~isValidStatusTransition(orders[id].status, req.status)
           THEN EntryDone(r, [req EXCEPT !.failed =
                                 Append(@, [id |-> id, error |-> "Invalid transition"])],
                          Resp("updateCourierStatus", 400, id, req.status,
                               orders[id].status, NoBody))
           ELSE /\ inFlight' = [inFlight EXCEPT ![r].pc = "updateStatus"]
                /\ UNCHANGED last
    /\ UNCHANGED <<variant, sqlStrict, limiter, orders, nextId, memOrders, today>>

\* await Order.updateStatus(id, status) of a request in flight is answered
AwaitUpdateStatus(r) ==
    /\ variant = "db"
    /\ inFlight[r].pc = "updateStatus"
    /\ LET req == inFlight[r]
           id == Head(req.rest)
           w == Order_updateStatus(orders, id, req.status)
       IN  /\ orders' = w.tbl
           /\ EntryDone(r, [req EXCEPT !.successful = Append(@, id)],
                        Returning(Resp("updateCourierStatus", 200, id, req.status,
                                       StatusOf(orders, id), NoBody), w.tbl, id))
    /\ UNCHANGED <<variant, sqlStrict, limiter, nextId, memOrders, today>>

(***************************************************************************)
(* Rate limiter of server-db.js.                                           *)
(***************************************************************************)
RATE_LIMIT_WINDOW == 60000

MAX_REQUESTS == 100

\* req.ip of the requests
Ips == 1..NumClients

\* milliseconds between two instants at which the clock is observed
Step == RATE_LIMIT_WINDOW \div TicksPerWindow

\* the instants of a run
Instants == {k * Step : k \in 0..MaxTicks}

\* the server has started: no record, no request passed, none in flight
LimiterInit ==
    /\ requestCounts = <<>>
    /\ now = 0
    /\ passed = [ip \in Ips |-> [t \in Instants |-> 0]]
    /\ inFlight = [r \in Slots |-> Idle]

\* the request is handed to next()
Pass(ip) == passed' = [passed EXCEPT ![ip][now] = @ + 1]

\* requestCounts.set(ip, record), record.count = ..., record.resetTime = ...
SetRecord(ip, record) ==
    requestCounts' = [i \in DOMAIN requestCounts \cup {ip} |->
                         IF i = ip THEN record ELSE requestCounts[i]]

\* rateLimiter(req, res, next)
rateLimiter(ip) ==
    /\ variant = "db"
    /\ IF ip \notin DOMAIN requestCounts
       THEN /\ SetRecord(ip, [count |-> 1, resetTime |-> now + RATE_LIMIT_WINDOW])
            /\ Pass(ip)
            /\ last' = Resp("rateLimiter", 0, ip, "undefined", "none", NoBody)
       ELSE IF now > requestCounts[ip].resetTime
       THEN /\ SetRecord(ip, [count |-> 1, resetTime |-> now + RATE_LIMIT_WINDOW])
            /\ Pass(ip)
            /\ last' = Resp("rateLimiter", 0, ip, "undefined", "none", NoBody)
       ELSE IF requestCounts[ip].count >= MAX_REQUESTS
       THEN /\ UNCHANGED <<requestCounts, passed>>
            /\ last' = Resp("rateLimiter", 429, ip, "undefined", "none", NoBody)
       ELSE /\ SetRecord(ip, [requestCounts[ip] EXCEPT !.count = @ + 1])
            /\ Pass(ip)
            /\ last' = Resp("rateLimiter", 0, ip, "undefined", "none", NoBody)
    /\ UNCHANGED <<variant, sqlStrict, orders, nextId, memOrders, today, now, inFlight>>

\* the callback of setInterval(..., RATE_LIMIT_WINDOW): records whose window
\* is over are deleted
cleanup ==
    /\ variant = "db"
    /\ requestCounts' = [ip \in {i \in DOMAIN requestCounts :
                                    ~(now > requestCounts[i].resetTime)} |->
                            requestCounts[ip]]
    /\ UNCHANGED <<variant, sqlStrict, orders, nextId, memOrders, today, last, now, passed,
                   inFlight>>

\* time passes; requests handed to next() a minute ago or earlier are
\* forgotten
Elapse ==
    /\ now + Step \in Instants
    /\ now' = now + Step
    /\ passed' = [ip \in Ips |-> [t \in Instants |->
                     IF t > now' - RATE_LIMIT_WINDOW THEN passed[ip][t] ELSE 0]]
    /\ UNCHANGED <<variant, sqlStrict, orders, nextId, memOrders, today, last,
                   requestCounts, inFlight>>

(***************************************************************************)
(* Initial state.                                                          *)
(***************************************************************************)
\* the rows the seed script inserts into table `orders`
SeedOrders ==
    << [order_id |-> <<202401, 1>>, status |-> "pending", product_id |-> "PROD001",
        quantity |-> 2, total_amount |-> 20000,
        createdAt |-> 0, updatedAt |-> 0],
       [order_id |-> <<202401, 2>>, status |-> "received", product_id |-> "PROD002",
        quantity |-> 5, total_amount |-> 12500,
        createdAt |-> 0, updatedAt |-> 0],
       [order_id |-> <<202401, 3>>, status |-> "issued", product_id |-> "PROD003",
        quantity |-> 10, total_amount |-> 12000,
        createdAt |-> 0, updatedAt |-> 0],
       [order_id |-> <<202401, 4>>, status |-> "sended", product_id |-> "PROD001",
        quantity |-> 1, total_amount |-> 10000,
        createdAt |-> 0, updatedAt |-> 0],
       [order_id |-> <<202401, 5>>, status |-> "in-transit", product_id |-> "PROD005",
        quantity |-> 20, total_amount |-> 16000,
        createdAt |-> 0, updatedAt |-> 0],
       [order_id |-> <<202401, 6>>, status |-> "delivered", product_id |-> "PROD004",
        quantity |-> 3, total_amount |-> 4500,
        createdAt |-> 0, updatedAt |-> 0] >>

NoLast == Resp("none", 0, 0, "undefined", "none", NoBody)

\* table `orders` when the relational server starts: empty (fresh schema) or
\* holding the seed rows
SeedTable == SubSeq(SeedOrders, 1, NumSeeds)

Init ==
    /\ variant \in {"db", "mem"}
    /\ sqlStrict \in (IF variant = "db" THEN BOOLEAN ELSE {TRUE})
    /\ orders \in (IF variant = "db" THEN {<<>>, SeedTable} ELSE {<<>>})
    /\ nextId = Len(orders) + 1
    /\ memOrders = IF variant = "mem" THEN MemSeed ELSE <<>>
    /\ today = 0
    /\ last = NoLast
    /\ LimiterInit

(***************************************************************************)
(* Request inputs.                                                         *)
(***************************************************************************)
\* a creation request that passes every validation
BaseBody ==
    [NoBody EXCEPT
       !.fullName = <<"K", "a">>,
       !.address = <<"1", " ", "M", "a", "i", "n">>,
       !.mobile = <<"0", "7", "0", "-", "1", "2", "3", "-", "4", "5", "6", "7">>,
       !.product = "herbal-cream",
       !.product_id = "PROD001",
       !.quantity = Num(2)]

\* ids a request may name: the ids in use and one unused id
Ids == 1..nextId

\* creation requests that differ in the status they carry
StatusCreateBodies ==
    {BaseBody,
     [BaseBody EXCEPT !.fullName = <<>>],
     [BaseBody EXCEPT !.status = "delivered"],
     [BaseBody EXCEPT !.status = "null"],
     [BaseBody EXCEPT !.status = "bogus"]}

\* update requests that differ in the status and the order code they carry
StatusUpdateBodies ==
    {NoBody,
     [NoBody EXCEPT !.status = "delivered"],
     [NoBody EXCEPT !.status = "null"],
     [NoBody EXCEPT !.status = "bogus"],
     [NoBody EXCEPT !.order_id = <<202401, 9>>],
     [NoBody EXCEPT !.order_id = <<202401, 9>>, !.status = "issued"]}

\* sequences over S of length at most n
RECURSIVE SeqsUpTo(_, _)
SeqsUpTo(S, n) ==
    IF n = 0 THEN {<<>>}
    ELSE LET shorter == SeqsUpTo(S, n - 1)
         IN  shorter \cup {Append(q, x) : q \in shorter, x \in S}

\* no repository error on any entry
NoFaults(orderIds) == [i \in 1..Len(orderIds) |-> FALSE]

\* the repository throws while at most one entry of orderIds is processed
OneFault(orderIds) ==
    {NoFaults(orderIds)}
       \cup {[i \in 1..Len(orderIds) |-> i = k] : k \in 1..Len(orderIds)}

(***************************************************************************)
(* Specification of the order lifecycle: every operation of both variants  *)
(* that creates, deletes or changes the status of an order.                *)
(***************************************************************************)
Next ==
    \/ /\ nextId <= MaxOrders
       /\ \E body \in StatusCreateBodies : PostOrders(body, 0)
    \/ /\ nextId <= MaxOrders
       /\ \E body \in StatusCreateBodies : createOrder(body, 0)
    \/ \E id \in 0..nextId, status \in StatusInputs : PutOrderStatus(id, status)
    \/ \E id \in Ids, status \in StatusInputs : updateOrderStatus(id, status)
    \/ \E id \in Ids, body \in StatusUpdateBodies : PutOrder(id, body)
    \/ \E id \in Ids, body \in StatusUpdateBodies : updateOrder(id, body)
    \/ \E id \in Ids : DeleteOrders(id)
    \/ \E id \in Ids : deleteOrder(id)
    \/ \E id \in Ids : sendToCourier(id)
    \/ \E id \in Ids, status \in StatusInputs : updateCourierStatus(id, status)
    \/ /\ Len(memOrders) < Len(MemSeed) + MaxMemNew
       /\ \E body \in StatusCreateBodies : MemPostOrders(body)
    \/ \E id \in 0..(Len(memOrders) + 1), status \in StatusInputs :
          MemPutOrderStatus(id, status)

Spec == Init /\ [][Next]_vars

(***************************************************************************)
(* Specification of single courier requests: one request is applied to a   *)
(* table the lifecycle can reach (the first NumRows seed rows, each in any  *)
(* status the column can hold: every ENUM value is reached by              *)
(* PUT /api/orders/:id/status, NULL by PUT /api/orders/:id with             *)
(* {status: null}, '' by a non-ENUM value under a non-strict sql_mode).     *)
(* The table is that of a non-strict deployment, whose column holds every   *)
(* value the column of a strict one can hold.                              *)
(***************************************************************************)
\* statuses column orders.status can hold
ColumnValues(strict) == EnumStatus \cup {"null"} \cup (IF strict THEN {} ELSE {""})

CourierInit ==
    /\ variant = "db"
    /\ sqlStrict = FALSE
    /\ \E st \in [1..NumRows -> ColumnValues(sqlStrict)] :
          orders = [i \in 1..NumRows |-> [SeedOrders[i] EXCEPT !.status = st[i]]]
    /\ nextId = NumRows + 1
    /\ memOrders = <<>>
    /\ today = 0
    /\ last = NoLast
    /\ LimiterInit

CourierNext ==
    \/ /\ last = NoLast
       /\ \E id \in Ids, status \in StatusInputs : updateCourierStatus(id, status)
    \/ /\ last = NoLast
       /\ \E orderIds \in SeqsUpTo(Ids, MaxBulk), status \in courierStatuses :
             \E faults \in OneFault(orderIds) :
                bulkUpdateStatus(orderIds, status, faults)
    \/ /\ last = NoLast
       /\ \E orderIds \in SeqsUpTo(Ids, MaxBulk), status \in {"undefined", "pending"} :
             bulkUpdateStatus(orderIds, status, NoFaults(orderIds))
    \/ /\ last = NoLast
       /\ \E id \in Ids, status \in StatusInputs : PutOrderStatus(id, status)
    \/ /\ last = NoLast
       /\ \E id \in Ids, status \in StatusInputs : updateOrderStatus(id, status)
    \/ /\ last = NoLast
       /\ \E id \in Ids : sendToCourier(id)
    \/ /\ last = NoLast
       /\ \E id \in Ids, body \in StatusUpdateBodies : PutOrder(id, body)

SpecCourier == CourierInit /\ [][CourierNext]_vars

(***************************************************************************)
(* The clock.                                                              *)
(***************************************************************************)
Midnight ==
    /\ today < MaxDay
    /\ today' = today + 1
    /\ UNCHANGED <<variant, sqlStrict, aside, orders, nextId, memOrders, last>>

(***************************************************************************)
(* Specification of the order codes: creations and deletions, on one day   *)
(* and across days.                                                        *)
(***************************************************************************)
CodesNext ==
    \/ /\ nextId <= MaxCreations
       /\ \E random \in 0..MaxRandom : PostOrders(BaseBody, random)
    \/ /\ nextId <= MaxCreations
       /\ \E random \in 0..MaxRandom : createOrder(BaseBody, random)
    \/ \E id \in Ids : DeleteOrders(id)
    \/ \E id \in Ids : deleteOrder(id)
    \/ \E id \in Ids : PutOrder(id, [NoBody EXCEPT !.order_id = generateOrderId(today, 0),
                                                   !.quantity = Num(3)])
    \/ /\ Len(memOrders) < Len(MemSeed) + MaxCreations
       /\ MemPostOrders(BaseBody)
    \/ Midnight

SpecCodes == Init /\ [][CodesNext]_vars

(***************************************************************************)
(* Specification of the amounts: creations and field updates that differ   *)
(* in product, quantity and explicit amount.                               *)
(***************************************************************************)
AmountCreateBodies ==
    {BaseBody,
     [BaseBody EXCEPT !.product_id = "PROD002"],
     [BaseBody EXCEPT !.total_amount = Num(-500)],
     [BaseBody EXCEPT !.total_amount = Num(0)],
     [BaseBody EXCEPT !.quantity = Num(0)]}

AmountUpdateBodies ==
    {[NoBody EXCEPT !.total_amount = Num(-500)],
     [NoBody EXCEPT !.quantity = Num(3)],
     [NoBody EXCEPT !.quantity = Num(-1)],
     [NoBody EXCEPT !.product_id = "PROD002"]}

AmountsNext ==
    \/ /\ nextId <= MaxOrders
       /\ \E body \in AmountCreateBodies : PostOrders(body, 0)
    \/ /\ nextId <= MaxOrders
       /\ \E body \in AmountCreateBodies : createOrder(body, 0)
    \/ \E id \in Ids, body \in AmountUpdateBodies : PutOrder(id, body)
    \/ \E id \in Ids, body \in AmountUpdateBodies : updateOrder(id, body)
    \/ /\ Len(memOrders) < Len(MemSeed) + MaxMemNew
       /\ \E body \in AmountCreateBodies : MemPostOrders(body)

SpecAmounts == Init /\ [][AmountsNext]_vars

(***************************************************************************)
(* Specification of the status requests: every status route of both        *)
(* servers, on one or two orders, on one day and across days.              *)
(***************************************************************************)
StatusNext ==
    \/ /\ nextId <= NumSeeds + MaxOrders
       /\ PostOrders(BaseBody, 0)
    \/ \E id \in 0..nextId, status \in StatusInputs : PutOrderStatus(id, status)
    \/ \E id \in Ids, status \in StatusInputs : updateOrderStatus(id, status)
    \/ \E id \in Ids : sendToCourier(id)
    \/ \E id \in Ids, status \in StatusInputs : updateCourierStatus(id, status)
    \/ \E id \in 0..(Len(memOrders) + 1), status \in StatusInputs :
          MemPutOrderStatus(id, status)
    \/ Midnight

SpecStatus == Init /\ [][StatusNext]_vars

(***************************************************************************)
(* Specification of the validation: one candidate is handed to the         *)
(* validator and to each creation path of a server in its initial state.   *)
(***************************************************************************)
NameInputs == {<<>>, <<"K">>, <<" ", "K", " ">>, <<"K", "a">>}

AddressInputs == {<<>>, <<"1", " ", "M", "a">>, <<"1", " ", "M", "a", "i", "n">>}

\* absent, "12345", "070-123-4567", "+94 70 123 4567", "07a-123-4567",
\* "070.123.4567", nine digits, fifteen digits, sixteen digits
MobileInputs ==
    {<<>>,
     <<"1", "2", "3", "4", "5">>,
     <<"0", "7", "0", "-", "1", "2", "3", "-", "4", "5", "6", "7">>,
     <<"+", "9", "4", " ", "7", "0", " ", "1", "2", "3", " ", "4", "5", "6", "7">>,
     <<"0", "7", "a", "-", "1", "2", "3", "-", "4", "5", "6", "7">>,
     <<"0", "7", "0", ".", "1", "2", "3", ".", "4", "5", "6", "7">>,
     [i \in 1..9 |-> "1"],
     [i \in 1..15 |-> "1"],
     [i \in 1..16 |-> "1"]}

QuantityInputs == {Undef, Text, Num(-1), Num(0), Num(1), Num(2), Num(100), Num(101)}

Candidates ==
    {[NoBody EXCEPT !.fullName = n, !.address = a, !.mobile = m,
                    !.product_id = p[1], !.product = p[2], !.quantity = q] :
        n \in NameInputs, a \in AddressInputs, m \in MobileInputs,
        p \in {<<"undefined", "undefined">>, <<"PROD001", "herbal-cream">>,
               <<"PROD002", "herbal-cream">>, <<"PROD999", "no-such-product">>},
        q \in QuantityInputs}

\* a call of Order.validateOrderData
Validate(data) ==
    /\ last' = [Resp("validateOrderData", 0, 0, "undefined", "none", data)
                   EXCEPT !.errors = validateOrderData(data)]
    /\ UNCHANGED <<variant, sqlStrict, aside, orders, nextId, memOrders, today>>

ValidateNext ==
    \/ /\ last = NoLast
       /\ \E data \in Candidates : Validate(data)
    \/ /\ last = NoLast
       /\ \E body \in Candidates : PostOrders(body, 0)
    \/ /\ last = NoLast
       /\ \E body \in Candidates : createOrder(body, 0)
    \/ /\ last = NoLast
       /\ \E body \in Candidates : MemPostOrders(body)

SpecValidate == Init /\ [][ValidateNext]_vars

(***************************************************************************)
(* Specification of the dashboard statistics: the statistics are read      *)
(* between creations, status updates and deletions, on one day and across  *)
(* days.                                                                   *)
(***************************************************************************)
StatsNext ==
    \/ /\ nextId <= NumSeeds + MaxOrders
       /\ \E body \in {BaseBody, [BaseBody EXCEPT !.total_amount = Num(100)]} :
             PostOrders(body, 0)
    \/ \E id \in Ids, status \in EnumStatus : PutOrderStatus(id, status)
    \/ \E id \in Ids : DeleteOrders(id)
    \/ /\ Len(memOrders) < Len(MemSeed) + MaxMemNew
       /\ MemPostOrders(BaseBody)
    \/ \E id \in 1..Len(memOrders), status \in memStatuses : MemPutOrderStatus(id, status)
    \/ Midnight
    \/ getStats(FALSE)
    \/ GetDashboardStats(FALSE)
    \/ MemGetDashboardStats

SpecStats == Init /\ [][StatsNext]_vars

(***************************************************************************)
(* Specification of the daily series: the series is read between           *)
(* creations and deletions spread over more than a week.                   *)
(***************************************************************************)
\* a day passes
NextDay ==
    /\ today < MaxClock
    /\ today' = today + 1
    /\ UNCHANGED <<variant, sqlStrict, aside, orders, nextId, memOrders, last>>

DailyNext ==
    \/ /\ nextId <= NumSeeds + MaxOrders
       /\ \E body \in {BaseBody, [BaseBody EXCEPT !.total_amount = Num(100)]} :
             PostOrders(body, 0)
    \/ \E id \in Ids : DeleteOrders(id)
    \/ NextDay
    \/ getDailyData
    \/ getAnalytics(FALSE)

SpecDaily == Init /\ [][DailyNext]_vars

(***************************************************************************)
(* Specification of the timelines: a timeline is read between creations    *)
(* and status updates, on one day and across days.                         *)
(***************************************************************************)
TimelineNext ==
    \/ /\ nextId <= MaxOrders
       /\ PostOrders(BaseBody, 0)
    \/ \E id \in Ids, status \in StatusInputs : PutOrderStatus(id, status)
    \/ \E id \in Ids : PutOrder(id, [NoBody EXCEPT !.status = "null"])
    \/ Midnight
    \/ \E id \in Ids : getDeliveryTimeline(id)
    \/ \E id \in Ids : getOrderTimeline(id)

SpecTimeline == Init /\ [][TimelineNext]_vars

(***************************************************************************)
(* Specification of the courier list: the list is read between creations   *)
(* and status updates.                                                     *)
(***************************************************************************)
CourierListNext ==
    \/ /\ nextId <= NumSeeds + MaxOrders
       /\ PostOrders(BaseBody, 0)
    \/ \E id \in Ids, status \in EnumStatus : PutOrderStatus(id, status)
    \/ \E id \in 1..Len(memOrders), status \in memStatuses : MemPutOrderStatus(id, status)
    \/ \E status \in EnumStatus \cup {"undefined", "all", "bogus"},
          binding \in ArrayBindings : getCourierOrders(status, binding)
    \/ GetCourierOrders
    \/ MemGetCourierOrders

SpecCourierList == Init /\ [][CourierListNext]_vars

(***************************************************************************)
(* Specification of the aggregates under failure: the aggregates are read  *)
(* between creations and status updates, with the repository available or  *)
(* not.                                                                    *)
(***************************************************************************)
DegradedNext ==
    \/ /\ nextId <= NumSeeds + MaxOrders
       /\ PostOrders(BaseBody, 0)
    \/ \E id \in Ids, status \in EnumStatus : PutOrderStatus(id, status)
    \/ \E unavailable \in BOOLEAN : getStats(unavailable)
    \/ \E unavailable \in BOOLEAN : GetDashboardStats(unavailable)
    \/ \E unavailable \in BOOLEAN : getAnalytics(unavailable)
    \/ \E unavailable \in BOOLEAN : GetAnalytics(unavailable)

SpecDegraded == Init /\ [][DegradedNext]_vars

(***************************************************************************)
(* Specification of the rate limiter: requests of the clients, the         *)
(* periodic cleanup and the passing of time on a relational server (the    *)
(* limiter reads and writes nothing of the table).                         *)
(***************************************************************************)
RateInit ==
    /\ Init
    /\ variant = "db"
    /\ sqlStrict
    /\ orders = <<>>

RateNext ==
    \/ \E ip \in Ips : rateLimiter(ip)
    \/ cleanup
    \/ Elapse

SpecRate == RateInit /\ [][RateNext]_vars

(***************************************************************************)
(* Specification of the two servers side by side: both are started (the    *)
(* relational one on a fresh schema, the in-memory one with its seed       *)
(* array) and every request is sent to both.  A status request names the   *)
(* k-th order the requests created, by the id each server gave it.         *)
(***************************************************************************)
PairInit ==
    /\ variant = "both"
    /\ sqlStrict \in BOOLEAN
    /\ orders = <<>>
    /\ nextId = 1
    /\ memOrders = MemSeed
    /\ today = 0
    /\ last = NoLast
    /\ LimiterInit

\* id of the k-th order created on the relational server (an unused id when
\* there is none)
DbCreated(k) ==
    IF k <= Cardinality(DOMAIN orders)
    THEN CHOOSE id \in DOMAIN orders : Cardinality({j \in DOMAIN orders : j <= id}) = k
    ELSE nextId

\* id of the k-th order created on the in-memory server
MemCreated(k) == Len(MemSeed) + k

\* creation requests sent to both servers
PairBodies ==
    {BaseBody,
     [BaseBody EXCEPT !.fullName = <<>>],
     [BaseBody EXCEPT !.quantity = Num(101)]}

\* POST /api/orders sent to both servers
PairPostOrders(body) ==
    /\ variant = "both"
    /\ LET db == PostOrdersHandler(orders, nextId, body, 0)
           mem == MemPostOrdersHandler(memOrders, body)
       IN  /\ orders' = db.tbl
           /\ nextId' = db.nextId
           /\ memOrders' = mem.arr
           /\ last' = [Resp("PairPostOrders", db.code, db.id, "undefined", "none", body)
                         EXCEPT !.data = <<[code |-> db.code, id |-> db.id],
                                           [code |-> mem.code, id |-> mem.id]>>]
    /\ UNCHANGED <<variant, sqlStrict, aside, today>>

\* PUT /api/orders/:id/status sent to both servers
PairPutOrderStatus(k, status) ==
    /\ variant = "both"
    /\ LET db == PutOrderStatusHandler(orders, DbCreated(k), status)
           mem == MemPutOrderStatusHandler(memOrders, MemCreated(k), status)
       IN  /\ orders' = db.tbl
           /\ memOrders' = mem.arr
           /\ last' = [Resp("PairPutOrderStatus", db.code, DbCreated(k), status,
                            StatusOf(orders, DbCreated(k)), NoBody)
                         EXCEPT !.data = <<[code |-> db.code, id |-> DbCreated(k)],
                                           [code |-> mem.code, id |-> MemCreated(k)]>>]
    /\ UNCHANGED <<variant, sqlStrict, aside, nextId, today>>

PairNext ==
    \/ /\ nextId <= MaxCreations
       /\ \E body \in PairBodies : PairPostOrders(body)
    \/ \E k \in 1..(MaxCreations + 1), status \in StatusInputs : PairPutOrderStatus(k, status)

SpecPair == PairInit /\ [][PairNext]_vars

(***************************************************************************)
(* Specification of the courier requests in flight: up to NumInFlight      *)
(* requests whose repository statements interleave freely.                 *)
(***************************************************************************)
\* a table of orders the office has issued or handed to the courier
FlightInit ==
    /\ variant = "db"
    /\ sqlStrict = FALSE
    /\ \E st \in [1..NumRows -> courierStatuses \cup {"issued"}] :
          orders = [i \in 1..NumRows |-> [SeedOrders[i] EXCEPT !.status = st[i]]]
    /\ nextId = NumRows + 1
    /\ memOrders = <<>>
    /\ today = 0
    /\ last = NoLast
    /\ LimiterInit

FlightNext ==
    \/ \E r \in Slots, id \in Ids, status \in courierStatuses \cup {"pending"} :
          BeginUpdateCourierStatus(r, id, status)
    \/ \E r \in Slots, orderIds \in SeqsUpTo(DOMAIN orders, MaxBulk) \cup {<<>>},
          status \in courierStatuses :
          BeginBulkUpdateStatus(r, orderIds, status)
    \/ \E r \in Slots : AwaitFindById(r)
    \/ \E r \in Slots : AwaitUpdateStatus(r)

SpecFlight == FlightInit /\ [][FlightNext]_vars

(***************************************************************************)
(* Specification of the courier operations alone: any sequence of single   *)
(* and bulk advances on a table of orders the office has issued or handed  *)
(* to the courier.  The repository answers every statement.                *)
(***************************************************************************)
AdvanceNext ==
    \/ \E id \in Ids, status \in courierStatuses \cup {"pending"} :
          updateCourierStatus(id, status)
    \/ \E orderIds \in SeqsUpTo(DOMAIN orders, MaxBulk) \ {<<>>},
          status \in courierStatuses :
          bulkUpdateStatus(orderIds, status, NoFaults(orderIds))
    \/ \E id \in Ids : getNextStatuses(id)

SpecAdvance == FlightInit /\ [][AdvanceNext]_vars

(***************************************************************************)
(* Specification of the creations: accepted and rejected creation          *)
(* requests in any order, on either server.                                *)
(***************************************************************************)
\* a body every server accepts, and bodies some validation rejects
CreationBodies ==
    {BaseBody,
     [BaseBody EXCEPT !.fullName = <<>>],
     [BaseBody EXCEPT !.fullName = <<"K">>],
     [BaseBody EXCEPT !.mobile = <<"0", "7", "0">>],
     [BaseBody EXCEPT !.product_id = "undefined", !.product = "undefined"],
     [BaseBody EXCEPT !.product_id = "PROD999"],
     [BaseBody EXCEPT !.quantity = Num(0)],
     [BaseBody EXCEPT !.quantity = Num(101)]}

CreationNext ==
    \/ /\ nextId <= MaxCreations
       /\ \E body \in CreationBodies, random \in 0..MaxRandom : PostOrders(body, random)
    \/ /\ nextId <= MaxCreations
       /\ \E body \in CreationBodies, random \in 0..MaxRandom : createOrder(body, random)
    \/ /\ Len(memOrders) < Len(MemSeed) + MaxCreations
       /\ \E body \in CreationBodies : MemPostOrders(body)

SpecCreation == Init /\ [][CreationNext]_vars

(***************************************************************************)
(* Specification of one courier request, single or bulk, on a table of     *)
(* orders the office has issued or handed to the courier; the repository   *)
(* may throw on any entry of a bulk request.                               *)
(***************************************************************************)
BulkNext ==
    \/ /\ last = NoLast
       /\ \E orderIds \in SeqsUpTo(Ids, MaxBulk), status \in courierStatuses :
             \E faults \in [1..Len(orderIds) -> BOOLEAN] :
                bulkUpdateStatus(orderIds, status, faults)
    \/ /\ last = NoLast
       /\ \E id \in Ids, status \in courierStatuses : updateCourierStatus(id, status)

SpecBulk == FlightInit /\ [][BulkNext]_vars

(***************************************************************************)
(* Properties of the status lifecycle.                                     *)
(***************************************************************************)
\* the transition table of the specification: the statuses reachable from s
\* in one courier step
TableRow(s) ==
    CASE s = "sended" -> {"in-transit", "delivered"}
      [] s = "in-transit" -> {"delivered"}
      [] OTHER -> {}

\* C1: a courier advance of an existing order in status s to target t
\* succeeds and stores t if and only if t is in the transition-table row of
\* s; otherwise it is rejected and the stored status stays s.
C1_CourierAdvanceIffTableRow ==
    (last.op = "updateCourierStatus" /\ last.prev # "none") =>
        /\ (last.code = 200) <=> (last.target \in TableRow(last.prev))
        /\ last.code = 200 => StatusOf(orders, last.id) = last.target
        /\ last.code # 200 =>
              /\ last.code = 400
              /\ StatusOf(orders, last.id) = last.prev

\* a courier advance from sent-to-courier straight to delivered succeeded
C1_Witness ==
    /\ last.op = "updateCourierStatus"
    /\ last.code = 200
    /\ last.prev = "sended"
    /\ last.target = "delivered"
    /\ StatusOf(orders, last.id) = "delivered"

C3_StatusInStateSet ==
    /\ \A id \in DOMAIN orders : orders[id].status \in StateSet
    /\ \A i \in 1..Len(memOrders) : memOrders[i].status \in StateSet

\* C4: an order that was just created is in the initial state 'pending'.
C4_CreatedInInitialState ==
    /\ (last.op \in {"PostOrders", "createOrder"} /\ last.code = 201) =>
          orders[last.id].status = "pending"
    /\ (last.op = "MemPostOrders" /\ last.code = 201) =>
          memOrders[last.id].status = "pending"

\* status of the order a status request named, after the request
StoredStatus ==
    IF last.op = "MemPutOrderStatus"
    THEN memOrders[MemIndex(memOrders, last.id)].status
    ELSE StatusOf(orders, last.id)

\* C5: a generic status update of an existing order succeeds and stores the
\* target for every target of the state set, whatever the current status,
\* and is rejected as an invalid status for every other value.
C5_GenericSetStatus ==
    (/\ last.op \in {"PutOrderStatus", "updateOrderStatus", "MemPutOrderStatus"}
     /\ last.prev # "none") =>
        /\ last.target \in StateSet => (last.code = 200 /\ StoredStatus = last.target)
        /\ last.target \notin StateSet => last.code = 400

\* C7: no operation changes the order code of a stored order.
C7_OrderCodeImmutable ==
    [][/\ \A id \in DOMAIN orders \cap DOMAIN orders' :
             orders'[id].order_id = orders[id].order_id
       /\ \A i \in 1..Len(memOrders) :
             /\ i <= Len(memOrders')
             /\ memOrders'[i].order_id = memOrders[i].order_id]_vars

\* a field update whose body carried another order code was applied
C7_Witness ==
    /\ last.op \in {"PutOrder", "updateOrder"}
    /\ last.code = 200
    /\ last.req.order_id # <<>>
    /\ last.id \in DOMAIN orders
    /\ orders[last.id].status = "issued"
    /\ orders[last.id].order_id # last.req.order_id

(***************************************************************************)
(* Properties of the bulk advance.                                         *)
(***************************************************************************)
\* entry i of a bulk request succeeds: the repository does not fail on it,
\* its order exists, and the target is in the table row of the status the
\* order has when the entry is processed (the target itself once an earlier
\* entry for the same order has succeeded)
RECURSIVE EntryOk(_, _, _, _, _)
EntryOk(tbl, ids, faults, target, i) ==
    /\ ~faults[i]
    /\ ids[i] \in DOMAIN tbl
    /\ target \in TableRow(
          IF \E j \in 1..(i - 1) : ids[j] = ids[i] /\ EntryOk(tbl, ids, faults, target, j)
          THEN target ELSE tbl[ids[i]].status)

\* the entries of ids at the indices in I, in list order
Pick(ids, I) ==
    LET idx == SelectSeq([i \in 1..Len(ids) |-> i], LAMBDA i : i \in I)
    IN  [k \in 1..Len(idx) |-> ids[idx[k]]]

\* C6: a bulk advance reports every entry of orderIds exactly once, in
\* `successful` if and only if the entry succeeds on its own, in `failed`
\* otherwise; the order of every successful entry is updated, whatever
\* happened to the other entries, and no other order changes.
C6_BulkEachEntryOnItsOwn ==
    [][(last'.op = "bulkUpdateStatus" /\ last'.code = 200) =>
          LET ids == last'.ids
              ok == {i \in 1..Len(ids) :
                        EntryOk(orders, ids, last'.faults, last'.target, i)}
          IN  /\ Len(last'.successful) + Len(last'.failed) = Len(ids)
              /\ last'.successful = Pick(ids, ok)
              /\ [k \in 1..Len(last'.failed) |-> last'.failed[k].id]
                    = Pick(ids, (1..Len(ids)) \ ok)
              /\ DOMAIN orders' = DOMAIN orders
              /\ \A id \in DOMAIN orders :
                    orders'[id] =
                       IF \E i \in ok : ids[i] = id
                       THEN [orders[id] EXCEPT !.status = last'.target]
                       ELSE orders[id]]_vars

\* a bulk advance whose first entry named no order and whose second entry
\* was advanced all the same
C6_Witness ==
    /\ last.op = "bulkUpdateStatus"
    /\ last.code = 200
    /\ Len(last.ids) = 2
    /\ last.ids[1] \notin DOMAIN orders
    /\ last.failed = <<[id |-> last.ids[1], error |-> "Order not found"]>>
    /\ last.successful = <<last.ids[2]>>
    /\ orders[last.ids[2]].status = last.target

(***************************************************************************)
(* Properties of the order codes and the amounts.                          *)
(***************************************************************************)
\* C8: no two stored orders have the same order code.
C8_OrderCodeUnique ==
    /\ \A i, j \in DOMAIN orders : i # j => orders[i].order_id # orders[j].order_id
    /\ \A i, j \in 1..Len(memOrders) :
          i # j => memOrders[i].order_id # memOrders[j].order_id

\* a creation drew the code of a stored order of the same day and was refused
C8_Witness ==
    /\ last.op \in {"PostOrders", "createOrder"}
    /\ last.req = BaseBody
    /\ last.code = 500
    /\ \E i \in DOMAIN orders : orders[i].order_id[1] = generateOrderId(today, 0)[1]

\* C9: an order created from a request that supplies no explicit amount has
\* totalAmount = quantity x the unit price of its catalog product.
C9_TotalIsQuantityTimesPrice ==
    (last.code = 201 /\ last.req.total_amount = Undef) =>
        /\ last.op \in {"PostOrders", "createOrder"} =>
              orders[last.id].total_amount
                 = orders[last.id].quantity * price(orders[last.id].product_id)
        /\ last.op = "MemPostOrders" =>
              memOrders[last.id].total_amount
                 = memOrders[last.id].quantity * price(memOrders[last.id].product_id)

\* C10: every stored order has totalAmount >= 0.
C10_TotalNonNegative ==
    /\ \A id \in DOMAIN orders : orders[id].total_amount >= 0
    /\ \A i \in 1..Len(memOrders) : memOrders[i].total_amount >= 0

(***************************************************************************)
(* Properties of the status requests.                                      *)
(***************************************************************************)
\* the routes and controller methods that set a status
StatusOps ==
    {"PutOrderStatus", "updateOrderStatus", "sendToCourier", "updateCourierStatus",
     "MemPutOrderStatus"}

\* C11: a successful status update changes the status and updatedAt of the
\* order it names and nothing else: updatedAt becomes the time of the
\* request, every other field of the order and every other order is
\* unchanged, and the response carries the order as stored after the update.
C11_StatusUpdateFrame ==
    [][(last'.op \in StatusOps /\ last'.code = 200) =>
          IF last'.op = "MemPutOrderStatus"
          THEN LET i == MemIndex(memOrders, last'.id) IN
               /\ Len(memOrders') = Len(memOrders)
               /\ \A j \in 1..Len(memOrders) : j # i => memOrders'[j] = memOrders[j]
               /\ "updatedAt" \in DOMAIN memOrders'[i]
               /\ memOrders'[i] = [memOrders[i] EXCEPT !.status = last'.target,
                                                       !.updatedAt = today']
               /\ last'.data = <<memOrders'[i]>>
          ELSE LET id == last'.id IN
               /\ DOMAIN orders' = DOMAIN orders
               /\ \A j \in DOMAIN orders : j # id => orders'[j] = orders[j]
               /\ orders'[id] = [orders[id] EXCEPT !.status = orders'[id].status,
                                                   !.updatedAt = today']
               /\ last'.data = <<orders'[id]>>]_vars

\* a status request whose target is a status of the operation's kind (a
\* courier status for the courier advance) and the status the order already has
SameStatus(l) ==
    /\ l.op \in StatusOps
    /\ l.target = l.prev
    /\ l.target \in (IF l.op = "updateCourierStatus" THEN courierStatuses ELSE StateSet)

\* C12: a status update to the status the order already has has one fixed
\* outcome: two such requests, whatever their operations and statuses, are
\* both accepted or both rejected.
C12_SameStatusOneOutcome ==
    [][(SameStatus(last) /\ SameStatus(last')) =>
          ((last.code = 200) <=> (last'.code = 200))]_vars

\* the order a status request names is not stored
Missing(l) ==
    IF l.op = "MemPutOrderStatus" THEN MemIndex(memOrders, l.id) = 0
    ELSE l.id \notin DOMAIN orders

\* C13: a status request with a valid target and a well-formed ID (a
\* positive integer) that names no stored order is answered NotFound and
\* leaves the store as it was.
C13_MissingOrderIsNotFound ==
    [][(/\ last'.op \in StatusOps
        /\ last'.id >= 1
        /\ Missing(last')
        /\ last'.target \in (IF last'.op = "updateCourierStatus"
                             THEN courierStatuses ELSE StateSet)) =>
          /\ last'.code = 404
          /\ orders' = orders
          /\ memOrders' = memOrders]_vars

(***************************************************************************)
(* Properties of the validation.                                           *)
(***************************************************************************)
\* the field rules of the order validator, as the specification states them
NameBad(c) == Len(trim(c.fullName)) < 2

AddressBad(c) == Len(trim(c.address)) < 5

MobileOk(m) ==
    LET kept == {i \in 1..Len(m) : m[i] # " " /\ m[i] # "-" /\ m[i] # "+"} IN
    /\ m # <<>>
    /\ \A i \in kept : m[i] \in {"0", "1", "2", "3", "4", "5", "6", "7", "8", "9"}
    /\ Cardinality(kept) >= 10
    /\ Cardinality(kept) <= 15

QuantityOk(q) == q[1] = "num" /\ q[2] >= 1

\* number of rules a candidate violates; its product reference is `product`
\* for the in-memory server and product_id elsewhere
Violations(c, op) ==
    (IF NameBad(c) THEN 1 ELSE 0)
    + (IF AddressBad(c) THEN 1 ELSE 0)
    + (IF ~MobileOk(c.mobile) THEN 1 ELSE 0)
    + (IF (IF op = "MemPostOrders" THEN c.product ELSE c.product_id) = "undefined"
       THEN 1 ELSE 0)
    + (IF ~QuantityOk(c.quantity) THEN 1 ELSE 0)

\* the messages of a response, as a set
Messages == {last.errors[i] : i \in 1..Len(last.errors)}

\* C14: a candidate that violates k of the five field rules gets exactly k
\* violations, one per violated rule, from the validator and from the
\* creation paths that report validation messages.
C14_AllViolationsReported ==
    last.op \in {"validateOrderData", "PostOrders", "MemPostOrders"} =>
        Len(last.errors) = Violations(last.req, last.op)

\* C15: the validator reports a quantity violation if and only if the
\* quantity is missing or does not parse as an integer >= 1.
C15_QuantityRule ==
    last.op = "validateOrderData" =>
        (("Valid quantity is required" \in Messages) <=> ~QuantityOk(last.req.quantity))

\* C16: the mobile rule accepts a candidate if and only if the mobile number
\* is present and, with spaces, dashes and plus signs removed, is 10 to 15
\* digits; in the in-memory route the rule is the one checked once the
\* fields are present and the name is valid.
C16_MobileRule ==
    /\ last.op = "validateOrderData" =>
          (("Valid mobile number is required" \in Messages) <=> ~MobileOk(last.req.mobile))
    /\ (/\ last.op = "MemPostOrders"
        /\ "All fields are required" \notin Messages
        /\ ~NameBad(last.req)) =>
          (("Valid mobile number is required (10-15 digits)" \in Messages)
              <=> ~MobileOk(last.req.mobile))

\* "+94 70 123 4567" was validated and accepted by the mobile rule
C16_Witness ==
    /\ last.op = "validateOrderData"
    /\ last.req.mobile =
          <<"+", "9", "4", " ", "7", "0", " ", "1", "2", "3", " ", "4", "5", "6", "7">>
    /\ "Valid mobile number is required" \notin Messages

\* the product reference of a creation request resolves to a catalog product
Resolves(l) ==
    IF l.op = "MemPostOrders" THEN l.req.product = "herbal-cream"
    ELSE l.req.product_id \in Products

\* C17: a creation request whose product reference is missing or unknown to
\* the catalog is rejected and inserts nothing.
C17_ProductMustResolve ==
    [][(last'.op \in {"PostOrders", "createOrder", "MemPostOrders"} /\ ~Resolves(last')) =>
          /\ last'.code # 201
          /\ orders' = orders
          /\ memOrders' = memOrders]_vars

(***************************************************************************)
(* Properties of the dashboard statistics.                                 *)
(***************************************************************************)
StatsOps == {"getStats", "GetDashboardStats", "MemGetDashboardStats"}

\* number of orders of a store whose status is in S
InStatus(tbl, S) == Num(Cardinality({i \in DOMAIN tbl : tbl[i].status \in S}))

\* a step that answers a statistics request: the response is new and the
\* stores and the day are as the request found them
StatsRequest ==
    /\ last' # last
    /\ last'.op \in StatsOps
    /\ UNCHANGED <<orders, memOrders, today>>

\* the store a statistics request reads holds an order
NonEmpty(op) == IF op = "MemGetDashboardStats" THEN memOrders # <<>> ELSE orders # <<>>

\* C18: for a store with orders (the empty store is C20) the dashboard
\* statistics report total = number of stored orders, pending, received and
\* issued = number of orders in that status, and courier = number of orders
\* that are sended, in-transit or delivered.
C18_StatusBuckets ==
    [][(StatsRequest /\ NonEmpty(last'.op)) =>
          LET tbl == IF last'.op = "MemGetDashboardStats" THEN memOrders' ELSE orders'
              stats == last'.data[1]
          IN  /\ stats.total = Num(Cardinality(DOMAIN tbl))
              /\ stats.pending = InStatus(tbl, {"pending"})
              /\ stats.received = InStatus(tbl, {"received"})
              /\ stats.issued = InStatus(tbl, {"issued"})
              /\ stats.courier = InStatus(tbl, {"sended", "in-transit", "delivered"})]_vars

\* C19: for a store with orders (the empty store is C20) the dashboard
\* statistics report total_revenue = sum of totalAmount over the stored
\* orders and today = number of stored orders created on the current day.
C19_RevenueAndToday ==
    [][(StatsRequest /\ NonEmpty(last'.op)) =>
          LET tbl == IF last'.op = "MemGetDashboardStats" THEN memOrders' ELSE orders'
              stats == last'.data[1]
          IN  /\ stats.total_revenue = Num(SumAmounts(tbl, DOMAIN tbl))
              /\ stats.today =
                    Num(Cardinality({i \in DOMAIN tbl : tbl[i].createdAt = today'}))]_vars

\* C20: on an empty order set every numeric field of the dashboard
\* statistics is 0, none is null or absent.
C20_EmptyStatsAreZero ==
    [][(StatsRequest /\ orders = <<>> /\ memOrders = <<>>) =>
          LET stats == last'.data[1] IN
          \A f \in {"total", "pending", "received", "issued", "courier", "today",
                    "monthly", "total_revenue"} : stats[f] = Num(0)]_vars

(***************************************************************************)
(* Properties of the daily series.                                         *)
(***************************************************************************)
\* the bucket of a calendar day: its weekday, the number of orders created
\* on it and their summed amounts
DayBucket(tbl, date) ==
    LET on == {id \in DOMAIN tbl : tbl[id].createdAt = date} IN
    [name |-> DayName(date), orders |-> Cardinality(on), revenue |-> SumAmounts(tbl, on)]

\* C21: the daily series has exactly one bucket for each of the trailing 7
\* calendar days, oldest day first and the current day last, and each
\* bucket holds the count and the revenue of the orders created on its day
\* (0 and 0 for a day without orders).
C21_DailySeries ==
    [][(last' # last /\ last'.op \in {"getDailyData", "getAnalytics"}) =>
          /\ Len(last'.data) = 7
          /\ \A k \in 1..7 : last'.data[k] = DayBucket(orders, today - (7 - k))]_vars

(***************************************************************************)
(* Properties of the delivery timeline.                                    *)
(***************************************************************************)
\* position of a status in the canonical order of the lifecycle
Rank(status) ==
    CASE status = "pending" -> 1
      [] status = "received" -> 2
      [] status = "issued" -> 3
      [] status = "sended" -> 4
      [] status = "in-transit" -> 5
      [] status = "delivered" -> 6
      [] OTHER -> 0

\* the first position at which a checkpoint is reached: placed with the
\* order itself, processed as soon as the order is received
Reached(checkpoint) ==
    CASE checkpoint = "order-placed" -> 1
      [] checkpoint = "processed" -> 2
      [] OTHER -> Rank(checkpoint)

\* C22: for an order whose status is in the state set, a checkpoint of the
\* delivery timeline is marked completed if and only if the order's status
\* is at or beyond the checkpoint in the canonical order, and the completed
\* checkpoints form a prefix of the timeline.
C22_TimelineCompleted ==
    (/\ last.op \in {"getDeliveryTimeline", "getOrderTimeline"}
     /\ last.code = 200
     /\ last.prev \in StateSet) =>
        /\ \A k \in 1..Len(last.data) :
              last.data[k].completed <=> (Rank(last.prev) >= Reached(last.data[k].status))
        /\ \A k \in 2..Len(last.data) :
              last.data[k].completed => last.data[k - 1].completed

\* the delivery timeline of an order in transit: placed, processed, sent to
\* courier and in transit are completed, delivered is not
C22_Witness ==
    /\ last.op = "getDeliveryTimeline"
    /\ last.code = 200
    /\ last.prev = "in-transit"
    /\ Len(last.data) = 5
    /\ \A k \in 1..4 : last.data[k].completed
    /\ ~last.data[5].completed

(***************************************************************************)
(* Properties of the courier list.                                         *)
(***************************************************************************)
\* the rows of the store a courier list reads
Stored(op) ==
    IF op = "MemGetCourierOrders" THEN {memOrders[i] : i \in 1..Len(memOrders)}
    ELSE {orders[id] : id \in DOMAIN orders}

\* C23: without a status filter the courier list is exactly the stored
\* orders whose status is sended, in-transit or delivered; with an exact
\* status it is exactly the orders of that status within the courier
\* subset.
C23_CourierOrders ==
    [][(/\ last' # last
        /\ last'.op \in {"getCourierOrders", "GetCourierOrders", "MemGetCourierOrders"}) =>
          /\ last'.code = 200
          /\ {last'.data[k] : k \in 1..Len(last'.data)} =
                {o \in Stored(last'.op) :
                   /\ o.status \in {"sended", "in-transit", "delivered"}
                   /\ last'.target \in {"undefined", "all"} \/ o.status = last'.target}]_vars

(***************************************************************************)
(* Properties of the aggregates under failure.                             *)
(***************************************************************************)
\* a statistic of a degraded response: zero, an empty list, or not part of
\* the response
ZeroOrEmpty(v) == v \in {Num(0), Absent, <<>>}

\* every statistic of a degraded response is zero or empty
Degraded(data) ==
    \A k \in 1..Len(data) : \A f \in DOMAIN data[k] : ZeroOrEmpty(data[k][f])

\* C24: an aggregate request made while the repository is unavailable is
\* answered without an error, with every statistic zero or empty.
C24_DegradedAggregates ==
    [][(/\ last' # last
        /\ last'.op \in {"getStats", "GetDashboardStats", "getAnalytics", "GetAnalytics"}
        /\ last'.faults = <<TRUE>>) =>
          /\ last'.code = 200
          /\ Degraded(last'.data)]_vars

(***************************************************************************)
(* Properties of the rate limiter.                                         *)
(***************************************************************************)
RECURSIVE SumOver(_, _)
SumOver(f, S) ==
    IF S = {} THEN 0
    ELSE LET x == CHOOSE y \in S : TRUE IN f[x] + SumOver(f, S \ {x})

\* requests of a client handed to a handler in the minute that ends now
PassedInLastMinute(ip) ==
    SumOver(passed[ip], {t \in Instants : t > now - RATE_LIMIT_WINDOW /\ t <= now})

\* C25: in every interval of one minute, wherever it starts, at most 100
\* requests of one client are handed to a handler, and a request that is
\* handed to a handler is never the 101st of its minute.
C25_AtMost100PerMinute ==
    \A ip \in Ips : PassedInLastMinute(ip) <= MAX_REQUESTS

(***************************************************************************)
(* Properties of the two servers side by side.                             *)
(***************************************************************************)
\* a response code that accepts the request
Accepted(code) == code \in {200, 201}

\* orders the requests created on both servers
CreatedOnBoth ==
    {k \in 1..Cardinality(DOMAIN orders) : MemCreated(k) <= Len(memOrders)}

\* C26: fed the same create and update-status requests, the relational and
\* the in-memory server accept or reject each request alike and hold the
\* same status for every order the requests created.
C26_VariantsBehaveAlike ==
    last.op \in {"PairPostOrders", "PairPutOrderStatus"} =>
        /\ Accepted(last.data[1].code) <=> Accepted(last.data[2].code)
        /\ \A k \in CreatedOnBoth :
              orders[DbCreated(k)].status = memOrders[MemCreated(k)].status

(***************************************************************************)
(* Requests in flight together.                                            *)
(***************************************************************************)
\* C27: when courier requests for the same order are in flight together and
\* their reads and writes interleave, every change of an order's stored
\* status follows an edge of the courier transition table; in particular no
\* order goes from delivered back to in-transit.
C27_InterleavedAdvancesFollowTable ==
    [][\A id \in DOMAIN orders :
          (id \in DOMAIN orders' /\ orders'[id].status # orders[id].status)
             => /\ orders[id].status \in DOMAIN validTransitions
                /\ orders'[id].status \in validTransitions[orders[id].status]]_vars

(***************************************************************************)
(* Bulk advance against single advances.                                   *)
(***************************************************************************)
\* advanceCourierStatus called once for each entry of orderIds, in list
\* order: the table left and the codes of the responses
RECURSIVE SingleCalls(_, _, _, _)
SingleCalls(tbl, orderIds, faults, status) ==
    IF orderIds = <<>> THEN [tbl |-> tbl, codes |-> <<>>]
    ELSE LET r == updateCourierStatusHandler(tbl, Head(orderIds), status, Head(faults))
             then == SingleCalls(r.tbl, Tail(orderIds), Tail(faults), status)
         IN  [tbl |-> then.tbl, codes |-> <<r.code>> \o then.codes]

\* the entries of orderIds whose single call had its code in `wanted`
RECURSIVE EntriesWith(_, _, _)
EntriesWith(orderIds, codes, wanted) ==
    IF orderIds = <<>> THEN <<>>
    ELSE (IF Head(codes) \in wanted THEN <<Head(orderIds)>> ELSE <<>>)
            \o EntriesWith(Tail(orderIds), Tail(codes), wanted)

\* C28: bulkAdvance(ids, s) with a valid courier status s is equivalent to
\* calling advanceCourierStatus(id, s) once for each entry of ids in list
\* order: both leave the order store in the same state, and bulkAdvance lists
\* an entry as successful exactly when the single call would have succeeded.
C28_BulkIsSequenceOfSingles ==
    [][(/\ last' # last
        /\ last'.op = "bulkUpdateStatus"
        /\ last'.target \in courierStatuses
        /\ last'.ids # <<>>)
          => LET single == SingleCalls(orders, last'.ids, last'.faults, last'.target)
             IN  /\ last'.code = 200
                 /\ orders' = single.tbl
                 /\ last'.successful = EntriesWith(last'.ids, single.codes, {200})
                 /\ [i \in 1..Len(last'.failed) |-> last'.failed[i].id]
                       = EntriesWith(last'.ids, single.codes, {400, 404, 500})]_vars

\* a bulk advance named the same advanceable order twice: the first entry
\* succeeded and the second was refused, as two single calls would have been
C28_Witness ==
    /\ last.op = "bulkUpdateStatus"
    /\ last.code = 200
    /\ Len(last.ids) = 2
    /\ last.ids[1] = last.ids[2]
    /\ last.successful = <<last.ids[1]>>
    /\ Len(last.failed) = 1
    /\ last.failed[1].id = last.ids[1]

(***************************************************************************)
(* Courier advances end.                                                   *)
(***************************************************************************)
\* rank of a status in sent-to-courier < in-transit < delivered; 0 for a
\* status the courier has not seen
CourierRank(status) ==
    CASE status = "sended" -> 1
      [] status = "in-transit" -> 2
      [] status = "delivered" -> 3
      [] OTHER -> 0

\* how many times the response lists order `id` as advanced
Advances(resp, id) ==
    IF resp.op = "updateCourierStatus"
    THEN (IF resp.code = 200 /\ resp.id = id THEN 1 ELSE 0)
    ELSE IF resp.op = "bulkUpdateStatus"
    THEN Cardinality({i \in 1..Len(resp.successful) : resp.successful[i] = id})
    ELSE 0

\* C29: under any sequence of courier operations alone, the rank of an
\* order's status in sent-to-courier < in-transit < delivered never decreases,
\* and every successful advance of an order starts from a courier status and
\* raises its rank, so that an order is advanced at most twice and ends in a
\* status from which no courier advance succeeds (getPossibleNextStatuses is
\* empty there).
C29_CourierAdvancesEnd ==
    [][\A id \in DOMAIN orders :
          /\ id \in DOMAIN orders'
          /\ CourierRank(orders'[id].status) >= CourierRank(orders[id].status)
          /\ last' # last /\ Advances(last', id) > 0
                => /\ CourierRank(orders[id].status) >= 1
                   /\ CourierRank(orders'[id].status)
                         >= CourierRank(orders[id].status) + Advances(last', id)
                   /\ getPossibleNextStatuses(orders[id].status) # <<>>
          /\ getPossibleNextStatuses(orders[id].status) = <<>>
                => orders'[id].status = orders[id].status]_vars

\* an order that was in transit has been advanced to delivered, from where
\* nothing follows
C29_Witness ==
    /\ last.op = "updateCourierStatus"
    /\ last.code = 200
    /\ last.prev = "in-transit"
    /\ last.id \in DOMAIN orders
    /\ orders[last.id].status = "delivered"
    /\ getPossibleNextStatuses(orders[last.id].status) = <<>>

(***************************************************************************)
(* Rejected creations.                                                     *)
(***************************************************************************)
\* the creation request is one a validation step of its handler rejects
ValidationRejects(op, body) ==
    CASE op = "PostOrders" ->
            \/ body.fullName = <<>> \/ body.address = <<>> \/ body.mobile = <<>>
            \/ validateOrderData(body) # <<>>
      [] op = "createOrder" ->
            body.product_id \notin Products \/ validateOrderData(body) # <<>>
      [] op = "MemPostOrders" -> MemPostErrors(body) # <<>>
      [] OTHER -> FALSE

\* C30: a creation request rejected by validation has no effect on the order
\* store: no order is inserted, no existing order changes, and the next
\* accepted creation receives the id and the order code it would have
\* received had the rejected request never been made.
C30_RejectedCreationHasNoEffect ==
    [][(last' # last /\ ValidationRejects(last'.op, last'.req))
          => /\ last'.code \in {400, 500}
             /\ orders' = orders
             /\ memOrders' = memOrders
             /\ \A random \in 0..MaxRandom :
                   LET never == PostOrdersHandler(orders, nextId, BaseBody, random)
                       next == PostOrdersHandler(orders', nextId', BaseBody, random)
                   IN  /\ next.code = never.code
                       /\ next.id = never.id
                       /\ next.code = 201
                             => next.tbl[next.id].order_id = never.tbl[never.id].order_id
             /\ LET never == MemPostOrdersHandler(memOrders, BaseBody)
                    next == MemPostOrdersHandler(memOrders', BaseBody)
                IN  /\ next.id = never.id
                    /\ next.arr[next.id].order_id = never.arr[never.id].order_id]_vars

\* a creation was rejected by validation on a server that stores an order
\* created before it
C30_Witness ==
    /\ ValidationRejects(last.op, last.req)
    /\ last.code \in {400, 500}
    /\ \/ /\ variant = "db"
          /\ \E id \in DOMAIN orders :
                orders[id].order_id[1] = generateOrderId(today, 0)[1]
       \/ variant = "mem" /\ Len(memOrders) > Len(MemSeed)

====
